---- MODULE Spec2Model ----
(***************************************************************************)
(* BrainyPal (Celestine-Paul/brainypal): a state-machine model of the      *)
(* parts of the backend that carry behaviour worth checking:               *)
(*   - RateLimiter of src/utils.py                       (SpecRL)          *)
(*   - PaymentService of src/backend/payment_service.py  (SpecPay)         *)
(*   - DatabaseManager of src/database.py: accounts      (SpecAuth)        *)
(*     and sessions                                      (SpecSession)     *)
(*   - the Flask apps src/app.py and src/backend/app.py  (SpecWeb)         *)
(* Every subsystem is its own specification over the same variables; the   *)
(* variables of the other subsystems stay at their initial values.         *)
(***************************************************************************)
EXTENDS Integers, Sequences, FiniteSets, TLC

VARIABLES
    now,          \* the wall clock read by datetime.now()/utcnow(): minutes, days in SpecWeb
    requests,     \* RateLimiter.requests: user_id -> list of request times
    rl_limit,     \* the limit L the callers of this RateLimiter pass
    rl_window,    \* the window_minutes W the callers pass
    rl_ret,       \* the last RateLimiter call and what it returned
    rl_log,       \* history: per user, the times of the calls is_allowed let through
    subscriptions,   \* the Subscription table payment_service.py reads and writes, in id order
    webhook_secret,  \* os.environ PAYSTACK_WEBHOOK_SECRET ("" when unset)
    pay_req,         \* the last payment request handled
    pay_resp,        \* and the answer to it
    db_users,        \* database.py: the committed rows of table users, in id order
    db_sessions,     \* the committed rows of table user_sessions
    token_count,     \* how many session tokens secrets.token_urlsafe has handed out
    audit_logs,      \* the distinct (user_id, action) rows of table audit_logs
    db_ret,          \* the last DatabaseManager call and what it returned
    deployed,        \* which Flask app serves: "main" (src/app.py) or "backend" (src/backend/app.py)
    users,           \* src/app.py: table users, in id order
    conversations,   \* table conversations
    messages,        \* table messages
    flashcards,      \* table flashcards
    b_users,         \* src/backend/app.py: table users
    b_flashcards,    \* table flashcards
    b_questions,     \* table questions
    signups,         \* history: the (email, password) pairs of the signups that succeeded
    gens_today,      \* history: per backend user, the generations that succeeded today
    web_req,         \* the last HTTP request handled
    web_resp,        \* and the response to it
    rate_limits,     \* database.py: table rate_limits, (ip_address, endpoint) -> row
    rate_args,       \* the limit and window_minutes the callers of check_rate_limit pass
    rate_log,        \* history: the check_rate_limit calls made, with what they returned
    cache,           \* utils.py: SimpleCache.cache, key -> (value, expiry)
    default_ttl,     \* SimpleCache.default_ttl
    cache_ret,       \* the last SimpleCache call and what it returned
    cache_hist,      \* history: per key the last set, and whether a delete or clear followed
    ai_in,           \* backend/ai_service.py: the arguments of the AIService call
    ai_out,          \* what the call returned or raised
    file_in,         \* utils.py: the filename given to allowed_file and get_file_type
    file_out,        \* what each of the two returned, once called
    progress,        \* backend/model.py: one stored Progress row
    streak_ret,      \* the last update_streak call and what it returned
    upload_db,       \* src/app.py: the committed rows of uploaded_files, flashcards, quizzes, quiz_questions
    upload_req,      \* the last upload request handled
    upload_resp,     \* and the response to it
    pool_size,       \* database.py: config['pool_size'] of the DatabaseManager
    pool_free,       \* connections waiting in the MySQLConnectionPool's queue
    pool_threads,    \* per thread: where its DatabaseManager operation is, and the connections it holds
    pool_kept,       \* history: connections taken from the pool that no operation holds or gave back
    gen_user,        \* backend/app.py: the committed users row of one free-plan user
    gen_threads,     \* per thread: where its generate_materials request is, and its session's copy of the row
    gen_started,     \* how many generate_materials requests have begun
    gen_done,        \* history: the day of each generate_materials request that succeeded
    crl_threads      \* utils.py: per thread, where its is_allowed call on the shared rate_limiter is

rl_vars == <<requests, rl_limit, rl_window, rl_ret, rl_log>>

pay_vars == <<subscriptions, webhook_secret, pay_req, pay_resp>>

db_vars == <<db_users, db_sessions, token_count, audit_logs, db_ret>>

web_vars == <<deployed, users, conversations, messages, flashcards,
              b_users, b_flashcards, b_questions, signups, gens_today,
              web_req, web_resp>>

rate_vars == <<rate_limits, rate_args, rate_log>>

cache_vars == <<cache, default_ttl, cache_ret, cache_hist>>

ai_vars == <<ai_in, ai_out>>

file_vars == <<file_in, file_out>>

streak_vars == <<progress, streak_ret>>

upload_vars == <<upload_db, upload_req, upload_resp>>

\* the subsystems added last
pool_vars == <<pool_size, pool_free, pool_threads, pool_kept>>

gen_vars == <<gen_user, gen_threads, gen_started, gen_done>>

crl_vars == <<crl_threads>>

late_vars == <<upload_vars, pool_vars, gen_vars, crl_vars>>

old_vars == <<rl_vars, pay_vars, db_vars, web_vars>>

\* the subsystems added after the first four
new_vars == <<rate_vars, cache_vars, ai_vars, file_vars, streak_vars, late_vars>>

vars == <<now, rl_vars, pay_vars, db_vars, web_vars, new_vars>>

\* what an operation of one subsystem leaves alone
rl_others == <<pay_vars, db_vars, web_vars, new_vars>>
pay_others == <<rl_vars, db_vars, web_vars, new_vars>>
db_others == <<rl_vars, pay_vars, web_vars, new_vars>>
web_others == <<rl_vars, pay_vars, db_vars, new_vars>>
rate_others == <<rl_vars, pay_vars, web_vars, cache_vars, ai_vars, file_vars, streak_vars, late_vars>>
cache_others == <<old_vars, rate_vars, ai_vars, file_vars, streak_vars, late_vars>>
ai_others == <<old_vars, rate_vars, cache_vars, file_vars, streak_vars, late_vars>>
file_others == <<old_vars, rate_vars, cache_vars, ai_vars, streak_vars, late_vars>>
streak_others == <<old_vars, rate_vars, cache_vars, ai_vars, file_vars, late_vars>>
early_vars == <<rate_vars, cache_vars, ai_vars, file_vars, streak_vars>>
upload_others == <<old_vars, early_vars, pool_vars, gen_vars, crl_vars>>
pool_others == <<old_vars, early_vars, upload_vars, gen_vars, crl_vars>>
gen_others == <<old_vars, early_vars, upload_vars, pool_vars, crl_vars>>
crl_others == <<pay_vars, db_vars, web_vars, early_vars, upload_vars, pool_vars, gen_vars>>

None == "None"

Max(a, b) == IF a >= b THEN a ELSE b

\* [x in s if p(x)] of Python, order kept
RECURSIVE SelectTimes(_, _)
SelectTimes(s, lo) ==
    IF s = <<>> THEN <<>>
    ELSE IF Head(s) > lo THEN <<Head(s)>> \o SelectTimes(Tail(s), lo)
         ELSE SelectTimes(Tail(s), lo)

(***************************************************************************)
(* Initial values of each subsystem's variables                            *)
(***************************************************************************)
NoRequest == [route |-> "none"]

PayTables ==
    /\ subscriptions = <<>>
    /\ pay_req = NoRequest
    /\ pay_resp = [status |-> 0, success |-> FALSE, body |-> "", raised |-> ""]

PayInitVars == PayTables /\ webhook_secret = ""

NoDbCall == [op |-> "none", email |-> "", password |-> "", token |-> 0, result |-> 0, at |-> 0]

DbInitVars ==
    /\ db_users = <<>>
    /\ db_sessions = {}
    /\ token_count = 0
    /\ audit_logs = {}
    /\ db_ret = NoDbCall

\* an Authorization header: none, one that does not decode, an expired token,
\* or a token that verifies; identity is the user id create_access_token
\* signed, read only from a token that verifies
NoToken == [kind |-> "none", identity |-> 0]

NoWebReq ==
    [route |-> "none", token |-> NoToken, name |-> <<>>, email |-> <<>>,
     password |-> <<>>, option |-> "", id |-> 0, text |-> <<>>, arg |-> 0]

NoWebResp ==
    [status |-> 0, message |-> "", token |-> 0, user |-> 0, conversations |-> {},
     messages |-> {}, flashcards |-> {}, questions |-> {}]

WebTables ==
    /\ users = <<>>
    /\ conversations = <<>>
    /\ messages = <<>>
    /\ flashcards = <<>>
    /\ b_users = <<>>
    /\ b_flashcards = <<>>
    /\ b_questions = <<>>
    /\ signups = {}
    /\ gens_today = <<>>
    /\ web_req = NoWebReq
    /\ web_resp = NoWebResp

WebInitVars == WebTables /\ deployed = "main"

RateTables ==
    /\ rate_limits = <<>>
    /\ rate_log = <<>>

RateInitVars == RateTables /\ rate_args = [limit |-> 0, window_minutes |-> 0]

CacheKeys == {"k1", "k2"}

\* ttl=None
NoTtl == <<>>

NoSet == [value |-> None, at |-> 0, ttl |-> NoTtl, live |-> FALSE]

NoCacheCall == [op |-> "none", key |-> "", at |-> 0, result |-> None]

CacheTables ==
    /\ cache = <<>>
    /\ cache_ret = NoCacheCall
    /\ cache_hist = [k \in CacheKeys |-> NoSet]

CacheInitVars == CacheTables /\ default_ttl = 1

\* no Hugging Face response: the API is not called
NoHf == [status |-> "", blocks |-> <<>>]

NoAiInput ==
    [call |-> "none", content |-> <<>>, topic |-> "", difficulty |-> "", count |-> 0,
     api_key |-> FALSE, hf |-> NoHf]

NotCalled == [op |-> "none", raised |-> "", result |-> <<>>]

AIInitVars == ai_in = NoAiInput /\ ai_out = NotCalled

NoFileCall == [allowed_called |-> FALSE, allowed |-> FALSE, type_called |-> FALSE, type |-> ""]

FileInitVars == file_in = <<>> /\ file_out = NoFileCall

\* last_study_date is <<day>>, or NoStudyDate for NULL
NoStudyDate == <<>>

\* a Progress row as committed with its column defaults
NewProgress == [streak |-> 0, longest_streak |-> 0, last_study_date |-> NoStudyDate]

NoStreakCall == [op |-> "none", studied_today |-> FALSE, at |-> 0, result |-> FALSE]

StreakInitVars == progress = NewProgress /\ streak_ret = NoStreakCall

NoTables == [uploaded_files |-> {}, flashcards |-> {}, quizzes |-> {}, quiz_questions |-> {}]

NoUpload == [id |-> 0]

UploadInitVars ==
    /\ upload_db = NoTables
    /\ upload_req = NoUpload
    /\ upload_resp = [status |-> 0]

PoolThreads == {1, 2}

Idle == [pc |-> "idle", held |-> <<>>, outcome |-> "none"]

PoolInitVars ==
    /\ pool_size = 1
    /\ pool_free = 1
    /\ pool_threads = [t \in PoolThreads |-> Idle]
    /\ pool_kept = 0

GenThreads == {1, 2}

\* a users row as signup stores it for the free plan
FreeUser == [plan |-> "free", daily_generations |-> 0, last_generation_date |-> -1]

NoGenRequest == [pc |-> "idle", user |-> FreeUser, status |-> ""]

GenInitVars ==
    /\ gen_user = FreeUser
    /\ gen_threads = [t \in GenThreads |-> NoGenRequest]
    /\ gen_started = 0
    /\ gen_done = <<>>

CrlThreads == {1, 2}

NotCalling == [pc |-> "idle", user |-> 0, at |-> 0, cleaned |-> <<>>, result |-> "none"]

CrlInitVars == crl_threads = [t \in CrlThreads |-> NotCalling]

LateInitVars == UploadInitVars /\ PoolInitVars /\ GenInitVars /\ CrlInitVars

EarlyInitVars ==
    RateInitVars /\ CacheInitVars /\ AIInitVars /\ FileInitVars /\ StreakInitVars

NewInitVars == EarlyInitVars /\ LateInitVars

(***************************************************************************)
(* src/utils.py: RateLimiter                                               *)
(***************************************************************************)
MaxNow == 3          \* the clock stops advancing here
MaxLimit == 2        \* limits 0..MaxLimit
MaxWindow == 2       \* windows 0..MaxWindow minutes
MaxCalls == 3        \* allowed calls recorded per user in the history
RLUsers == {1, 2}

NoCall == [op |-> "none", user |-> 0, at |-> 0, result |-> None]

\* window_start = now - timedelta(minutes=window_minutes); keep req_time > window_start
RecentRequests(reqs, t, window) == SelectTimes(reqs, t - window)

UnderLimit_off_by_one(reqs, limit) == Len(reqs) <= limit

\* if len(self.requests[user_id]) < limit
UnderLimit(reqs, limit) == Len(reqs) < limit

is_allowed(user_id, limit, window) ==
    LET cleaned == IF user_id \in DOMAIN requests
                   THEN RecentRequests(requests[user_id], now, window)
                   ELSE <<>>
        ok == UnderLimit(cleaned, limit)
        stored == IF ok THEN Append(cleaned, now) ELSE cleaned
    IN /\ ok => Len(rl_log[user_id]) < MaxCalls
       /\ requests' = [u \in DOMAIN requests \cup {user_id} |->
                          IF u = user_id THEN stored ELSE requests[u]]
       /\ rl_ret' = [op |-> "is_allowed", user |-> user_id, at |-> now, result |-> ok]
       /\ rl_log' = IF ok THEN [rl_log EXCEPT ![user_id] = Append(@, now)] ELSE rl_log
       /\ UNCHANGED <<now, rl_limit, rl_window, rl_others>>

get_remaining_requests(user_id, limit, window) ==
    LET remaining == IF user_id \in DOMAIN requests
                     THEN Max(0, limit - Len(RecentRequests(requests[user_id], now, window)))
                     ELSE limit
    IN /\ rl_ret' = [op |-> "get_remaining_requests", user |-> user_id, at |-> now,
                     result |-> remaining]
       /\ UNCHANGED <<now, requests, rl_limit, rl_window, rl_log, rl_others>>

RLIsAllowed == \E u \in RLUsers : is_allowed(u, rl_limit, rl_window)

RLGetRemaining == \E u \in RLUsers : get_remaining_requests(u, rl_limit, rl_window)

\* time passes between calls
RLTick ==
    /\ now < MaxNow
    /\ now' = now + 1
    /\ UNCHANGED <<rl_vars, rl_others>>

RLTables ==
    /\ requests = <<>>
    /\ rl_ret = NoCall
    /\ rl_log = [u \in RLUsers |-> <<>>]

RLInitVars == RLTables /\ rl_limit = 0 /\ rl_window = 0

OldInitVars == RLInitVars /\ PayInitVars /\ DbInitVars /\ WebInitVars

InitRL ==
    /\ NewInitVars
    /\ now = 0
    /\ WebInitVars
    /\ RLTables
    /\ PayInitVars
    /\ DbInitVars
    /\ rl_limit \in 0..MaxLimit
    /\ rl_window \in 0..MaxWindow

NextRL == RLIsAllowed \/ RLGetRemaining \/ RLTick

SpecRL == InitRL /\ [][NextRL]_vars

\* the allowed calls of user u made in the half-open span (t - rl_window, t]
AllowedIn(u, t) == {i \in DOMAIN rl_log[u] : rl_log[u][i] > t - rl_window /\ rl_log[u][i] <= t}

RLWindowBound ==
    \A u \in RLUsers : \A t \in 0..MaxNow : Cardinality(AllowedIn(u, t)) <= rl_limit

RLRemainingExact ==
    rl_ret.op = "get_remaining_requests" =>
        /\ rl_ret.result = Max(0, rl_limit - Cardinality(AllowedIn(rl_ret.user, rl_ret.at)))
        /\ rl_ret.result >= 0
        /\ AllowedIn(rl_ret.user, rl_ret.at) # {} => rl_ret.result < rl_limit

\* a time enters the stored list only through a call that returned True
RLRefusedRecordsNothing ==
    \A u \in RLUsers :
        LET before == IF u \in DOMAIN requests THEN requests[u] ELSE <<>>
            kept == RecentRequests(before, now, rl_window)
        IN u \in DOMAIN requests' =>
             \/ requests'[u] = before
             \/ /\ rl_ret'.op = "is_allowed" /\ rl_ret'.user = u
                /\ IF rl_ret'.result THEN requests'[u] = Append(kept, now)
                                     ELSE requests'[u] = kept

\* C8: per user at most rl_limit calls of is_allowed return True within any
\* half-open span of rl_window minutes, a refused call records nothing, and
\* get_remaining_requests returns rl_limit minus the number of allowed calls
\* still inside the window, never below 0, hence below rl_limit whenever an
\* allowed call is still inside the window.
C8_RateLimiterWindow ==
    /\ [](RLWindowBound /\ RLRemainingExact)
    /\ [][RLRefusedRecordsNothing]_vars

C8_Witness ==
    /\ rl_ret.op = "get_remaining_requests"
    /\ rl_limit = 2
    /\ rl_ret.result = 1
    /\ Len(rl_log[rl_ret.user]) = 3
    /\ rl_ret.at > rl_log[rl_ret.user][1] + rl_window
(***************************************************************************)
(* src/backend/payment_service.py: PaystackPaymentProcessor and its routes *)
(* A Subscription row is [user_id, plan_type, status, payment_id,          *)
(* start_date, end_date], the fields payment_service.py reads and writes.  *)
(* Python's None/empty values: NoRef for a reference, 0 for a user id, ""  *)
(* for a plan, NoDate for a date, NoSig for an absent signature header.    *)
(* The payment requests of one run are handled within one clock reading,   *)
(* counted in days.                                                        *)
(***************************************************************************)
PayUsers == {1, 2}
Plans == {"premium", "pro"}
SubscriptionDays == 30
NoRef == <<>>
NoSig == <<>>
NoDate == -1
PaystackSecret == "whsec"

Digits == <<"0", "1", "2", "3", "4", "5", "6", "7", "8", "9">>

\* str(n) of a one-digit number
Str(n) == Digits[n + 1]

IsInt(s) == \E n \in 0..9 : Digits[n + 1] = s

\* int(s)
ToInt(s) == CHOOSE n \in 0..9 : Digits[n + 1] = s

\* f"brainypal_{user_id}_{plan_type}_{timestamp}", kept as the parts split('_') gives
FormatReference(user_id, plan_type, t) == <<"brainypal", Str(user_id), plan_type, Str(t)>>

\* 'brainypal_' in reference
HasBrainypalPrefix(reference) == \E i \in 1..(Len(reference) - 1) : reference[i] = "brainypal"

\* hmac.new(secret, payload, sha512).hexdigest()
Hmac(secret, payload) == <<secret, payload>>

\* Subscription.query.filter_by(user_id=user_id).first(): 0 when there is none
FirstByUser(tbl, user_id) ==
    IF \E i \in DOMAIN tbl : tbl[i].user_id = user_id
    THEN CHOOSE i \in DOMAIN tbl :
            /\ tbl[i].user_id = user_id
            /\ \A j \in DOMAIN tbl : tbl[j].user_id = user_id => i <= j
    ELSE 0

\* Subscription.query.filter_by(payment_id=reference).first(): 0 when there is none
FirstByPaymentId(tbl, reference) ==
    IF \E i \in DOMAIN tbl : tbl[i].payment_id = reference
    THEN CHOOSE i \in DOMAIN tbl :
            /\ tbl[i].payment_id = reference
            /\ \A j \in DOMAIN tbl : tbl[j].payment_id = reference => i <= j
    ELSE 0

PendingStatus_active == "active"

\* status='pending'
PendingStatus == "pending"

_create_pending_subscription(tbl, user_id, plan_type, reference) ==
    LET i == FirstByUser(tbl, user_id)
    IN IF i # 0
       THEN [tbl EXCEPT ![i].plan_type = plan_type,
                        ![i].status = PendingStatus,
                        ![i].payment_id = reference]
       ELSE Append(tbl, [user_id |-> user_id, plan_type |-> plan_type,
                         status |-> PendingStatus, payment_id |-> reference,
                         start_date |-> NoDate, end_date |-> NoDate])

\* the result dict of a processor method together with the table it leaves
Result(tbl, success) == [subs |-> tbl, success |-> success]

initialize_payment(tbl, user_id, plan_type, api_ok, t) ==
    IF plan_type \notin Plans THEN Result(tbl, FALSE)
    ELSE IF api_ok
         THEN Result(_create_pending_subscription(tbl, user_id, plan_type,
                         FormatReference(user_id, plan_type, t)), TRUE)
         ELSE Result(tbl, FALSE)

\* int(parts[1]) raises ValueError when a reference without metadata carries
\* no number in its second part
ReferenceRaises(data) ==
    /\ (data.meta_user = 0 \/ data.meta_plan = "")
    /\ data.reference # NoRef
    /\ HasBrainypalPrefix(data.reference)
    /\ Len(data.reference) >= 3
    /\ ~IsInt(data.reference[2])

_handle_successful_payment(tbl, data, t) ==
    LET reference == data.reference
        fromRef == /\ (data.meta_user = 0 \/ data.meta_plan = "")
                   /\ reference # NoRef
                   /\ HasBrainypalPrefix(reference)
                   /\ Len(reference) >= 3
        raises == ReferenceRaises(data)
        user_id == IF fromRef /\ ~raises THEN ToInt(reference[2]) ELSE data.meta_user
        plan_type == IF fromRef /\ ~raises THEN reference[3] ELSE data.meta_plan
        i == FirstByUser(tbl, user_id)
    IN IF raises THEN Result(tbl, FALSE)
       ELSE IF user_id # 0 /\ plan_type # ""
       THEN IF i # 0
            THEN Result([tbl EXCEPT ![i].plan_type = plan_type,
                                    ![i].status = "active",
                                    ![i].payment_id = reference,
                                    ![i].start_date = t,
                                    ![i].end_date = t + SubscriptionDays], TRUE)
            ELSE Result(Append(tbl, [user_id |-> user_id, plan_type |-> plan_type,
                                     status |-> "active", payment_id |-> reference,
                                     start_date |-> t,
                                     end_date |-> t + SubscriptionDays]), TRUE)
       ELSE Result(tbl, FALSE)

_handle_failed_payment(tbl, data) ==
    LET i == FirstByPaymentId(tbl, data.reference)
    IN IF i # 0 THEN Result([tbl EXCEPT ![i].status = "failed"], TRUE)
       ELSE Result(tbl, TRUE)

_handle_subscription_created(tbl, data) == Result(tbl, TRUE)

_handle_subscription_cancelled(tbl, data, t) ==
    LET i == FirstByPaymentId(tbl, data.subscription_code)
    IN IF i # 0 THEN Result([tbl EXCEPT ![i].status = "cancelled", ![i].end_date = t], TRUE)
       ELSE Result(tbl, TRUE)

handle_webhook(tbl, webhook_data, t) ==
    CASE webhook_data.event = "charge.success" ->
            _handle_successful_payment(tbl, webhook_data.data, t)
      [] webhook_data.event = "charge.failed" ->
            _handle_failed_payment(tbl, webhook_data.data)
      [] webhook_data.event = "subscription.create" ->
            _handle_subscription_created(tbl, webhook_data.data)
      [] webhook_data.event = "subscription.disable" ->
            _handle_subscription_cancelled(tbl, webhook_data.data, t)
      [] OTHER -> Result(tbl, TRUE)

validate_webhook_signature(payload, signature) ==
    IF webhook_secret = "" THEN TRUE
    ELSE signature = Hmac(webhook_secret, payload)

cancel_subscription(tbl, user_id, t) ==
    LET i == FirstByUser(tbl, user_id)
    IN IF i = 0 \/ tbl[i].plan_type = "free" THEN Result(tbl, FALSE)
       ELSE Result([tbl EXCEPT ![i].status = "cancelled", ![i].end_date = t], TRUE)
\* the references a webhook sender may put in an event: none, one a stored
\* subscription carries, or one it makes up
ForgedReferences == {<<"brainypal", "x", "pro">>}

ReferenceChoices ==
    {NoRef} \cup {subscriptions[i].payment_id : i \in DOMAIN subscriptions} \cup ForgedReferences

NoData == [reference |-> NoRef, meta_user |-> 0, meta_plan |-> "", subscription_code |-> NoRef]

WebhookBodies ==
    {[event |-> "charge.success",
      data |-> [NoData EXCEPT !.reference = r, !.meta_user = m[1], !.meta_plan = m[2]]] :
        r \in ReferenceChoices, m \in {<<0, "">>, <<1, "">>, <<2, "pro">>}}
    \cup {[event |-> "charge.failed", data |-> [NoData EXCEPT !.reference = r]] :
        r \in ReferenceChoices}
    \cup {[event |-> "subscription.disable",
           data |-> [NoData EXCEPT !.subscription_code = r]] : r \in ReferenceChoices}
    \cup {[event |-> e, data |-> NoData] : e \in {"subscription.create", "invoice.update"}}

\* the X-Paystack-Signature header: absent, signed by Paystack, or signed with a guessed key
SignatureChoices(body) == {NoSig, Hmac(PaystackSecret, body), Hmac("guess", body)}

\* a request body that is not JSON: request.get_json() raises BadRequest
NotJson == [event |-> "", data |-> NoData]

\* what the Paystack API call does: answers 200, answers an error, or raises
ApiOutcomes == {"ok", "refused", "raises"}

\* a response: status, the processor's success flag, the kind of body, and
\* where an exception was caught while the request was handled ("" when none
\* was raised, "handler" in the route's except clause, "processor" inside the
\* processor method)
PayAnswer(status, success, body, raised) ==
    [status |-> status, success |-> success, body |-> body, raised |-> raised]

\* a webhook handler that answered every failure with a JSON body and status 500
WebhookAnswer_json(result, raised) ==
    PayAnswer(IF result.success THEN 200 ELSE 500, result.success, "json", raised)

\* the answer of handle_paystack_webhook to the processor's result:
\* '', 200 or result['error'], 400
WebhookAnswer(result, raised) ==
    PayAnswer(IF result.success THEN 200 ELSE 400, result.success, "text", raised)

\* the identity of the JWT a request carries in its Authorization header;
\* 0 when it carries no valid one
JwtIdentities == PayUsers \cup {0}

\* POST /api/payment/initialize; the route reads no Authorization header
initialize_paystack_payment ==
    \E user_id \in PayUsers \cup {0}, plan_type \in {"pro", "gold"}, api \in ApiOutcomes,
       jwt_identity \in JwtIdentities :
        LET result == initialize_payment(subscriptions, user_id, plan_type, api = "ok", now)
        IN /\ pay_req' = [route |-> "initialize", user_id |-> user_id, plan_type |-> plan_type,
                          jwt_identity |-> jwt_identity]
           /\ IF user_id = 0   \* no 'user_id' in the body: data['user_id'] raises KeyError
              THEN /\ pay_resp' = PayAnswer(500, FALSE, "json", "handler")
                   /\ UNCHANGED subscriptions
              ELSE /\ subscriptions' = result.subs
                   /\ pay_resp' = PayAnswer(200, result.success, "json",
                                         IF api = "raises" THEN "processor" ELSE "")
           /\ UNCHANGED <<now, webhook_secret, pay_others>>

\* POST /api/payment/webhook
handle_paystack_webhook ==
    \E webhook_data \in WebhookBodies \cup {NotJson} :
      \E signature \in SignatureChoices(webhook_data) :
        LET rejected == signature # NoSig /\ ~validate_webhook_signature(webhook_data, signature)
            result == handle_webhook(subscriptions, webhook_data, now)
            raised == IF webhook_data.event = "charge.success"
                         /\ ReferenceRaises(webhook_data.data)
                      THEN "processor" ELSE ""
        IN /\ pay_req' = [route |-> "webhook", body |-> webhook_data, signature |-> signature]
           /\ IF webhook_data = NotJson
              THEN /\ pay_resp' = PayAnswer(500, FALSE, "text", "handler")
                   /\ UNCHANGED subscriptions
              ELSE IF rejected
              THEN /\ pay_resp' = PayAnswer(400, FALSE, "text", "")
                   /\ UNCHANGED subscriptions
              ELSE /\ subscriptions' = result.subs
                   /\ pay_resp' = WebhookAnswer(result, raised)
           /\ UNCHANGED <<now, webhook_secret, pay_others>>

\* PaystackPaymentProcessor.cancel_subscription, called for a user
CancelSubscription ==
    \E user_id \in PayUsers :
        LET result == cancel_subscription(subscriptions, user_id, now)
        IN /\ subscriptions' = result.subs
           /\ pay_req' = [route |-> "cancel", user_id |-> user_id]
           /\ pay_resp' = PayAnswer(200, result.success, "", "")
           /\ UNCHANGED <<now, webhook_secret, pay_others>>

InitPay ==
    /\ NewInitVars
    /\ now = 0
    /\ WebInitVars
    /\ RLInitVars
    /\ DbInitVars
    /\ PayTables
    /\ webhook_secret \in {"", PaystackSecret}

NextPay == initialize_paystack_payment \/ handle_paystack_webhook \/ CancelSubscription

SpecPay == InitPay /\ [][NextPay]_vars
IsWebhook(req, event) == req.route = "webhook" /\ req.body.event = event

\* C9 (as claimed): a webhook request changes a subscription only when it
\* carries a signature that validate_webhook_signature accepts for its body;
\* a request with no signature at all changes no subscription.
C9_WebhookNeedsValidSignature ==
    [][(pay_req'.route = "webhook" /\ subscriptions' # subscriptions) =>
          /\ pay_req'.signature # NoSig
          /\ validate_webhook_signature(pay_req'.body, pay_req'.signature)]_vars

HasStatus(tbl, user_id, status) ==
    \E i \in DOMAIN tbl : tbl[i].user_id = user_id /\ tbl[i].status = status

\* the user a charge event is about: metadata.user_id, or the id in its reference
EventNamesUser(data, user_id) ==
    \/ data.meta_user = user_id
    \/ Len(data.reference) >= 2 /\ data.reference[2] = Str(user_id)

\* the rows of tbl2 that are new or differ from tbl1
Touched(tbl1, tbl2) == {i \in DOMAIN tbl2 : i \notin DOMAIN tbl1 \/ tbl2[i] # tbl1[i]}

PayStatusStep ==
    /\ \A u \in PayUsers :
          HasStatus(subscriptions', u, "active") /\ ~HasStatus(subscriptions, u, "active")
             => /\ IsWebhook(pay_req', "charge.success")
                /\ EventNamesUser(pay_req'.body.data, u)
    /\ pay_req'.route = "initialize" =>
          \A i \in Touched(subscriptions, subscriptions') :
              /\ subscriptions'[i].status = "pending"
              /\ subscriptions'[i].user_id = pay_req'.user_id
    /\ IsWebhook(pay_req', "charge.failed") =>
          /\ DOMAIN subscriptions' = DOMAIN subscriptions
          /\ \A i \in Touched(subscriptions, subscriptions') :
                /\ subscriptions[i].payment_id = pay_req'.body.data.reference
                /\ subscriptions'[i] = [subscriptions[i] EXCEPT !.status = "failed"]
    /\ IsWebhook(pay_req', "subscription.disable") =>
          /\ DOMAIN subscriptions' = DOMAIN subscriptions
          /\ \A i \in Touched(subscriptions, subscriptions') :
                /\ subscriptions[i].payment_id = pay_req'.body.data.subscription_code
                /\ subscriptions'[i].status = "cancelled"
                /\ [subscriptions'[i] EXCEPT !.end_date = NoDate]
                     = [subscriptions[i] EXCEPT !.status = "cancelled", !.end_date = NoDate]
    /\ /\ pay_req'.route = "webhook"
       /\ pay_req'.body # NotJson
       /\ pay_req'.body.event \notin {"charge.success", "charge.failed", "subscription.disable"}
       /\ ~(pay_req'.signature # NoSig
            /\ ~validate_webhook_signature(pay_req'.body, pay_req'.signature))
       => pay_resp'.status = 200 /\ pay_resp'.success /\ subscriptions' = subscriptions

\* C10: a subscription becomes 'active' only in a step that handles a
\* charge.success event naming its user; initialize_payment leaves every row
\* it touches 'pending'; charge.failed only sets 'failed' on a row whose
\* payment_id is the event's reference; subscription.disable only sets
\* 'cancelled' (and the end date) on the row it matches; every other event is
\* answered as processed and changes no subscription.
C10_StatusTransitions == [][PayStatusStep]_vars

C10_Witness ==
    /\ IsWebhook(pay_req, "charge.failed")
    /\ \E i \in DOMAIN subscriptions :
          /\ subscriptions[i].status = "failed"
          /\ subscriptions[i].payment_id = pay_req.body.data.reference
          /\ subscriptions[i].start_date # NoDate
    /\ \E j \in DOMAIN subscriptions : subscriptions[j].status = "active"
(***************************************************************************)
(* src/database.py: DatabaseManager, users and their sessions.             *)
(* A users row is [email, password_hash, login_attempts, locked_until,     *)
(* last_login, last_active]; its id is its place in db_users.  A           *)
(* user_sessions row is [session_token, user_id, expires_at].  Times are   *)
(* minutes; NoTime is SQL NULL; a call returns 0 for Python's None.        *)
(* Every operation runs on a pooled connection with autocommit off: what   *)
(* it wrote reaches the tables only through connection.commit().           *)
(***************************************************************************)
MaxDbUsers == 2          \* rows of table users
MaxTokens == 2           \* session tokens handed out
MaxLoginAttempts == 5
LockoutDurationMinutes == 30
SessionMinutes == 1440
\* the clock steps of the two database runs
AuthTickMinutes == LockoutDurationMinutes \div 3
SessionTickMinutes == SessionMinutes \div 2
NoTime == -1
DbEmails == {"a@x", "b@x"}
DbPasswords == {"p", "q"}
Salts == {"s1", "s2"}

(***************************************************************************)
(* C17: exceptions raised while a request is handled                       *)
(***************************************************************************)
PayRoutes == {"initialize", "webhook"}

C18_InitializeNeedsOwnJwt ==
    [][(pay_req'.route = "initialize" /\ subscriptions' # subscriptions)
          => /\ pay_req'.jwt_identity # 0
             /\ pay_req'.jwt_identity = pay_req'.user_id]_vars

\* what the route does instead: it changes the subscription of whichever
\* user the body names, whatever JWT the request carries
InitializeTrustsBody ==
    [][(pay_req'.route = "initialize" /\ pay_resp'.success)
          => \E i \in DOMAIN subscriptions' :
                /\ subscriptions'[i].user_id = pay_req'.user_id
                /\ subscriptions'[i].status = PendingStatus
                /\ subscriptions'[i].plan_type = pay_req'.plan_type]_vars

\* hashlib.sha256(text.encode()).hexdigest()
Sha256(text) == <<"sha256", text>>

\* f"{salt}:{password_hash}", kept as the parts split(':') gives
hash_password(password, salt) == <<salt, Sha256(<<password, salt>>)>>

verify_password(password, stored_hash) ==
    Sha256(<<password, stored_hash[1]>>) = stored_hash[2]

\* SELECT ... FROM users WHERE email = %s: the row's id, 0 when there is none
UserByEmail(tbl, email) ==
    IF \E i \in DOMAIN tbl : tbl[i].email = email
    THEN CHOOSE i \in DOMAIN tbl : tbl[i].email = email
    ELSE 0

\* leaving "with self.get_connection()": close() hands the connection back to
\* the pool, whose pool_reset_session=True resets the session, and with
\* autocommit=False that rolls back whatever was not committed
CloseConnection(committed, working, did_commit) ==
    IF did_commit THEN working ELSE committed

\* the users table as the connection sees it after increment_login_attempts
increment_login_attempts(tbl, user_id, t) ==
    LET counted == [tbl EXCEPT ![user_id].login_attempts = @ + 1, ![user_id].last_active = t]
    IN IF counted[user_id].login_attempts >= MaxLoginAttempts
       THEN [counted EXCEPT ![user_id].locked_until = t + LockoutDurationMinutes]
       ELSE counted

reset_login_attempts(tbl, user_id, t) ==
    [tbl EXCEPT ![user_id].login_attempts = 0, ![user_id].locked_until = NoTime,
                ![user_id].last_active = t]

\* log_audit_event commits on a connection of its own
log_audit_event(user_id, action) == audit_logs' = audit_logs \cup {<<user_id, action>>}

create_user(email, password, salt) ==
    /\ IF UserByEmail(db_users, email) # 0
       THEN \* email is UNIQUE: the INSERT raises Error, caught, None
            /\ UNCHANGED <<db_users, audit_logs>>
            /\ db_ret' = [NoDbCall EXCEPT !.op = "create_user", !.email = email,
                                         !.password = password, !.at = now]
       ELSE /\ Len(db_users) < MaxDbUsers
            /\ db_users' = Append(db_users,
                   [email |-> email, password_hash |-> hash_password(password, salt),
                    login_attempts |-> 0, locked_until |-> NoTime,
                    last_login |-> NoTime, last_active |-> now])
            /\ log_audit_event(Len(db_users) + 1, "user_created")
            /\ db_ret' = [NoDbCall EXCEPT !.op = "create_user", !.email = email,
                                         !.password = password, !.at = now,
                                         !.result = Len(db_users) + 1]
    /\ UNCHANGED <<now, db_sessions, token_count, db_others>>

authenticate_user(email, password) ==
    LET id == UserByEmail(db_users, email)
        ret(result) == [NoDbCall EXCEPT !.op = "authenticate_user", !.email = email,
                                        !.password = password, !.at = now,
                                        !.result = result]
    IN /\ IF id = 0
          THEN /\ db_ret' = ret(0)
               /\ UNCHANGED <<db_users, audit_logs>>
          ELSE IF db_users[id].locked_until # NoTime /\ now < db_users[id].locked_until
          THEN /\ db_ret' = ret(0)
               /\ UNCHANGED <<db_users, audit_logs>>
          ELSE IF ~verify_password(password, db_users[id].password_hash)
          THEN \* increment_login_attempts, then "return None" with no commit
               /\ db_users' = CloseConnection(db_users,
                                  increment_login_attempts(db_users, id, now), FALSE)
               /\ db_ret' = ret(0)
               /\ UNCHANGED audit_logs
          ELSE /\ db_users' = CloseConnection(db_users,
                                  [reset_login_attempts(db_users, id, now)
                                      EXCEPT ![id].last_login = now], TRUE)
               /\ log_audit_event(id, "user_login")
               /\ db_ret' = ret(id)
       /\ UNCHANGED <<now, db_sessions, token_count, db_others>>

AuthCreateUser ==
    \E email \in DbEmails, password \in DbPasswords, salt \in Salts :
        create_user(email, password, salt)

AuthAuthenticate ==
    \E email \in DbEmails, password \in DbPasswords : authenticate_user(email, password)

AuthTick ==
    /\ now < MaxNow * AuthTickMinutes
    /\ now' = now + AuthTickMinutes
    /\ UNCHANGED <<db_vars, db_others>>

InitAuth ==
    /\ NewInitVars
    /\ now = 0
    /\ WebInitVars
    /\ DbInitVars
    /\ RLInitVars
    /\ PayInitVars

NextAuth == AuthCreateUser \/ AuthAuthenticate \/ AuthTick

SpecAuth == InitAuth /\ [][NextAuth]_vars
\* an authenticate_user call that found the account, not locked, and a
\* password that does not verify
IsFailedAttempt(ret, tbl, t) ==
    LET id == UserByEmail(tbl, ret.email)
    IN /\ ret.op = "authenticate_user"
       /\ ret.at = t
       /\ id # 0
       /\ ~(tbl[id].locked_until # NoTime /\ t < tbl[id].locked_until)
       /\ ~verify_password(ret.password, tbl[id].password_hash)

\* C6 (as claimed): every failed password attempt for an existing email
\* raises the stored login_attempts of that user by one, and the attempt
\* that reaches max_login_attempts sets locked_until lockout_duration_minutes
\* ahead.
C6_FailedAttemptIsCounted ==
    [][(now' = now /\ db_ret' # db_ret /\ IsFailedAttempt(db_ret', db_users, now)) =>
          LET id == UserByEmail(db_users, db_ret'.email)
          IN /\ db_users'[id].login_attempts = db_users[id].login_attempts + 1
             /\ (db_users'[id].login_attempts >= MaxLoginAttempts =>
                     db_users'[id].locked_until = now + LockoutDurationMinutes)]_vars

(***************************************************************************)
(* src/database.py: sessions.                                              *)
(***************************************************************************)
\* secrets.token_urlsafe(32): a token no earlier call has returned
FreshToken == token_count + 1

SessionRows(tbl, session_token) == {s \in tbl : s.session_token = session_token}

ExpiresLater_or_now(expires_at, t) == expires_at >= t
\* WHERE ... s.expires_at > %s
ExpiresLater(expires_at, t) == expires_at > t

\* the rows of user_sessions JOIN users that validate_session selects
ValidRows(sessions, tbl, session_token, t) ==
    {s \in SessionRows(sessions, session_token) :
        s.user_id \in DOMAIN tbl /\ ExpiresLater(s.expires_at, t)}

create_session(user_id) ==
    /\ token_count < MaxTokens
    /\ token_count' = token_count + 1
    /\ IF user_id \in DOMAIN db_users
       THEN /\ db_sessions' = db_sessions \cup
                   {[session_token |-> FreshToken, user_id |-> user_id,
                     expires_at |-> now + SessionMinutes]}
            /\ db_ret' = [NoDbCall EXCEPT !.op = "create_session", !.at = now,
                                         !.result = FreshToken]
       ELSE \* the foreign key on user_id refuses the INSERT: Error, None
            /\ UNCHANGED db_sessions
            /\ db_ret' = [NoDbCall EXCEPT !.op = "create_session", !.at = now]
    /\ UNCHANGED <<now, db_users, audit_logs, db_others>>

validate_session(session_token) ==
    LET rows == ValidRows(db_sessions, db_users, session_token, now)
        row == CHOOSE s \in rows : TRUE
    IN /\ IF rows # {}
          THEN /\ db_users' = CloseConnection(db_users,
                                  [db_users EXCEPT ![row.user_id].last_active = now], TRUE)
               /\ db_ret' = [NoDbCall EXCEPT !.op = "validate_session", !.at = now,
                                            !.token = session_token,
                                            !.result = row.user_id]
          ELSE /\ UNCHANGED db_users
               /\ db_ret' = [NoDbCall EXCEPT !.op = "validate_session", !.at = now,
                                            !.token = session_token]
       /\ UNCHANGED <<now, db_sessions, token_count, audit_logs, db_others>>

\* returns rowcount > 0, kept in result as 1 or 0
delete_session(session_token) ==
    /\ db_sessions' = db_sessions \ SessionRows(db_sessions, session_token)
    /\ db_ret' = [NoDbCall EXCEPT !.op = "delete_session", !.at = now,
                                 !.token = session_token,
                                 !.result = IF SessionRows(db_sessions, session_token) # {}
                                            THEN 1 ELSE 0]
    /\ UNCHANGED <<now, db_users, token_count, audit_logs, db_others>>

RateLimitKeepMinutes == 1440

\* DELETE FROM rate_limits WHERE window_start < now - timedelta(hours=24)
OldRateLimitsDeleted(tbl, t) ==
    [k \in {j \in DOMAIN tbl : ~(tbl[j].window_start < t - RateLimitKeepMinutes)} |-> tbl[k]]

\* DELETE FROM user_sessions WHERE expires_at < now, then the old rate_limits
\* rows; no audit row is 90 days old within the clock's range
cleanup_expired_sessions ==
    /\ db_sessions' = {s \in db_sessions : ~(s.expires_at < now)}
    /\ rate_limits' = OldRateLimitsDeleted(rate_limits, now)
    /\ db_ret' = [NoDbCall EXCEPT !.op = "cleanup_expired_sessions", !.at = now]
    /\ UNCHANGED <<now, db_users, token_count, audit_logs, rate_args, rate_log, rate_others>>

SessCreateUser == \E email \in DbEmails : create_user(email, "p", "s1")

SessCreate == \E user_id \in 1..MaxDbUsers : create_session(user_id)

SessValidate == \E session_token \in 1..MaxTokens : validate_session(session_token)

SessDelete == \E session_token \in 1..MaxTokens : delete_session(session_token)

SessTick ==
    /\ now < MaxNow * SessionTickMinutes
    /\ now' = now + SessionTickMinutes
    /\ UNCHANGED <<db_vars, db_others>>

InitSession ==
    /\ NewInitVars
    /\ now = 0
    /\ WebInitVars
    /\ DbInitVars
    /\ RLInitVars
    /\ PayInitVars

NextSession ==
    \/ SessCreateUser
    \/ SessCreate
    \/ SessValidate
    \/ SessDelete
    \/ cleanup_expired_sessions
    \/ SessTick

SpecSession == InitSession /\ [][NextSession]_vars

\* the token has a session row whose expiry is still ahead
SessionLive(session_token) ==
    \E s \in db_sessions : s.session_token = session_token /\ s.expires_at > now

\* every session row expires 24 hours after some moment up to now
SessionExpiryBound == \A s \in db_sessions : s.expires_at <= now + SessionMinutes

\* the answer of the validate_session call just made: the session's user
\* exactly when the token is live, None otherwise
ValidateExact ==
    (db_ret.op = "validate_session" /\ db_ret.at = now) =>
        IF SessionLive(db_ret.token)
        THEN \E s \in db_sessions : /\ s.session_token = db_ret.token
                                    /\ s.user_id = db_ret.result
        ELSE db_ret.result = 0

\* a token that was handed out and is no longer live never becomes live again
DeadStaysDead ==
    \A session_token \in 1..token_count :
        ~SessionLive(session_token) => ~SessionLive(session_token)'

\* a session row is created with expires_at 24 hours ahead
CreatedFor24Hours ==
    (db_ret'.op = "create_session" /\ db_ret'.result # 0 /\ token_count' # token_count) =>
        /\ db_ret'.result \notin {s.session_token : s \in db_sessions}
        /\ \E s \in db_sessions' : /\ s.session_token = db_ret'.result
                                   /\ s.expires_at = now + SessionMinutes

\* C7: validate_session accepts a token returned by create_session exactly
\* while its session row exists and its expires_at, 24 hours after creation,
\* is later than the current time; after delete_session or expiry the token
\* is refused in every later state.
C7_SessionValidity ==
    /\ [](ValidateExact /\ SessionExpiryBound)
    /\ [][DeadStaysDead /\ CreatedFor24Hours]_vars

\* a token was validated at the very minute its row expires, the row still
\* stored, and refused
C7_Witness ==
    /\ db_ret.op = "validate_session"
    /\ db_ret.at = now
    /\ db_ret.result = 0
    /\ \E s \in db_sessions : s.session_token = db_ret.token /\ s.expires_at = now
(***************************************************************************)
(* The Flask apps src/app.py ("main") and src/backend/app.py ("backend").  *)
(* One of them is deployed; each has its own tables.  A text is a tuple of *)
(* characters, <<>> for an empty or missing one.  A row's id is its place  *)
(* in its table.  The timestamps of the rows (created_at, updated_at,      *)
(* last_active, last_login) and the columns no modelled handler reads are  *)
(* not kept; a response is kept as its status, its message, the identity   *)
(* of the access token it carries (0 for none) and the ids of the records  *)
(* it shows.  Modelled of src/app.py: signup, login, the conversation,     *)
(* flashcard, dashboard, search and history routes; of src/backend/app.py: *)
(* signup, login, generate_materials, get_user_materials, get_profile.     *)
(***************************************************************************)
MaxUsers == 2            \* rows of a users table
MaxConversations == 2
MaxMessages == 2
MaxFlashcards == 1
MaxReviews == 1          \* reviews of one flashcard
TitleLen == 50

EmailA == <<"a", "@", "x">>
EmailAMessy == <<" ", "A", "@", "x">>
EmailB == <<"b", "@", "x">>
EmailNoAt == <<"a", "x">>
Pw1 == <<"p", "a", "s", "s", "w", "o", "r", "d">>
Pw2 == <<"l", "e", "t", "m", "e", "i", "n", "2">>
PwShort == <<"p", "w">>
WebSalts == {"s1"}

\* str.lower() on the letters the inputs use
Lower(ch) ==
    CASE ch = "A" -> "a" [] ch = "H" -> "h" [] ch = "Z" -> "z"
      [] ch = "D" -> "d" [] ch = "F" -> "f" [] ch = "M" -> "m" [] ch = "P" -> "p"
      [] OTHER -> ch

LowerText(text) == [i \in DOMAIN text |-> Lower(text[i])]

RECURSIVE LStrip(_)
LStrip(text) == IF text # <<>> /\ Head(text) = " " THEN LStrip(Tail(text)) ELSE text

RECURSIVE RStrip(_)
RStrip(text) ==
    IF text # <<>> /\ text[Len(text)] = " " THEN RStrip(SubSeq(text, 1, Len(text) - 1))
    ELSE text

\* str.strip()
Strip(text) == LStrip(RStrip(text))

Contains(text, part) ==
    \E i \in 0..(Len(text) - Len(part)) : SubSeq(text, i + 1, i + Len(part)) = part

\* column.ilike(f'%{query}%')
ilike(text, query) == Contains(LowerText(text), LowerText(query))

\* text[:50] + "..." if len(text) > 50 else text
Preview(text) ==
    IF Len(text) > TitleLen THEN SubSeq(text, 1, TitleLen) \o <<".", ".", ".">> ELSE text

\* werkzeug generate_password_hash: a salted digest, kept as (salt, digest)
generate_password_hash(password, salt) == <<salt, <<"digest", salt, password>>>>

check_password_hash_any(pwhash, password) == TRUE
check_password_hash(pwhash, password) == pwhash[2] = <<"digest", pwhash[1], password>>

\* the Authorization headers a client can send to an app whose users are tbl
Tokens(tbl) ==
    {NoToken, [kind |-> "malformed", identity |-> 0], [kind |-> "expired", identity |-> 0]}
    \cup {[kind |-> "valid", identity |-> id] : id \in DOMAIN tbl}

\* @jwt_required() lets the request through
JwtAccepts(token) == token.kind = "valid"

\* JWTManager(app) with no loader registered: the default callbacks answer
\* NoAuthorizationError and ExpiredSignatureError with 401, a token that
\* does not decode with 422
JwtErrorStatus_all_422(token) == 422
JwtErrorStatus(token) == IF token.kind \in {"none", "expired"} THEN 401 ELSE 422

Answer(status, message) == [NoWebResp EXCEPT !.status = status, !.message = message]

main_tables == <<users, conversations, messages, flashcards>>
backend_tables == <<b_users, b_flashcards, b_questions>>

\* what a request to src/app.py leaves alone whatever it does
main_fixed == <<now, deployed, backend_tables, gens_today, web_others>>

\* @jwt_required() answering a request the handler never sees
jwt_required(route, token) ==
    /\ ~JwtAccepts(token)
    /\ web_req' = [NoWebReq EXCEPT !.route = route, !.token = token]
    /\ web_resp' = Answer(JwtErrorStatus(token), "jwt")
    /\ UNCHANGED <<now, deployed, main_tables, backend_tables, signups, gens_today,
                   web_others>>

\* the bodies of POST /api/auth/signup of src/app.py: email, password
MainSignupBodies ==
    {<<EmailA, Pw1>>, <<EmailB, Pw2>>, <<<<>>, Pw1>>, <<EmailA, <<>>>>}
MainEmails == {<<>>, EmailA, EmailB}
LoginPasswords == {<<>>, Pw1, Pw2}

EmailTaken_never(tbl, email) == FALSE
\* User.query.filter_by(email=email).first() finds a user
EmailTaken(tbl, email) == UserByEmail(tbl, email) # 0

create_conversation(user_id, title) ==
    Append(conversations, [user_id |-> user_id, title |-> title])

signup ==
    /\ deployed = "main"
    /\ \E body \in MainSignupBodies, salt \in WebSalts :
          LET email == body[1]
              password == body[2]
          IN
          /\ web_req' = [NoWebReq EXCEPT !.route = "signup", !.email = email,
                                        !.password = password]
          /\ IF email = <<>> \/ password = <<>>
             THEN /\ web_resp' = Answer(400, "Email and password required")
                  /\ UNCHANGED <<users, conversations, signups>>
             ELSE IF EmailTaken(users, email)
             THEN /\ web_resp' = Answer(409, "User already exists")
                  /\ UNCHANGED <<users, conversations, signups>>
             ELSE /\ Len(users) < MaxUsers
                  /\ Len(conversations) < MaxConversations
                  /\ users' = Append(users,
                         [email |-> email,
                          password_hash |-> generate_password_hash(password, salt)])
                  /\ conversations' = create_conversation(Len(users) + 1, "Welcome Chat")
                  /\ signups' = signups \cup {<<email, password>>}
                  /\ web_resp' = [Answer(201, "User created successfully") EXCEPT
                                     !.token = Len(users) + 1,
                                     !.user = Len(users) + 1,
                                     !.conversations = {Len(conversations) + 1}]
    /\ UNCHANGED <<messages, flashcards, main_fixed>>

login ==
    /\ deployed = "main"
    /\ \E email \in MainEmails, password \in LoginPasswords :
          LET id == UserByEmail(users, email)
          IN /\ web_req' = [NoWebReq EXCEPT !.route = "login", !.email = email,
                                           !.password = password]
             /\ web_resp' =
                  IF email = <<>> \/ password = <<>>
                  THEN Answer(400, "Email and password required")
                  ELSE IF id = 0 \/ ~check_password_hash(users[id].password_hash, password)
                  THEN Answer(401, "Invalid credentials")
                  ELSE [Answer(200, "Login successful") EXCEPT !.token = id, !.user = id]
    /\ UNCHANGED <<main_tables, signups, main_fixed>>
\* the ids of the rows of a table that carry this user_id
OwnedBy(tbl, user_id) == {i \in DOMAIN tbl : tbl[i].user_id = user_id}

MessagesOf(conversation_id) ==
    {i \in DOMAIN messages : messages[i].conversation_id = conversation_id}

\* Message.query.filter_by(conversation_id=...).order_by(timestamp.desc()).first()
LastMessage(conversation_id) ==
    {i \in MessagesOf(conversation_id) : \A j \in MessagesOf(conversation_id) : j <= i}

OwnsRow_any(tbl, id, user_id) == id \in DOMAIN tbl
\* Model.query.filter_by(id=id, user_id=user_id).first() finds a row
OwnsRow(tbl, id, user_id) == id \in DOMAIN tbl /\ tbl[id].user_id = user_id

ChatTexts == {<<>>, <<" ">>, <<"H", "i">>}
AiReplies == {<<"o", "k">>}
Topics == {<<>>, <<"z", "o", "o">>}
Queries == {<<" ">>, <<"h">>, <<"Z">>}

\* no UserProgress row is ever committed: see update_user_progress
UserProgressRows == {}

\* update_user_progress: a row it has to create has counters of None until
\* the first flush, and "+=" on them raises TypeError
update_user_progress(rows, user_id, topic) ==
    IF \E r \in rows : r.user_id = user_id /\ r.topic = topic THEN "ok" ELSE "TypeError"

get_conversations ==
    /\ deployed = "main"
    /\ \E token \in Tokens(users) :
          \/ jwt_required("get_conversations", token)
          \/ /\ JwtAccepts(token)
             /\ web_req' = [NoWebReq EXCEPT !.route = "get_conversations", !.token = token]
             /\ web_resp' = [Answer(200, "") EXCEPT
                    !.conversations = OwnedBy(conversations, token.identity),
                    !.messages = UNION {LastMessage(c) :
                                          c \in OwnedBy(conversations, token.identity)}]
             /\ UNCHANGED <<main_tables, signups, main_fixed>>

get_conversation_detail ==
    /\ deployed = "main"
    /\ \E token \in Tokens(users) :
          \/ jwt_required("get_conversation_detail", token)
          \/ \E conversation_id \in 1..MaxConversations :
             /\ JwtAccepts(token)
             /\ web_req' = [NoWebReq EXCEPT !.route = "get_conversation_detail",
                                           !.token = token, !.id = conversation_id]
             /\ web_resp' =
                  IF ~OwnsRow(conversations, conversation_id, token.identity)
                  THEN Answer(404, "Conversation not found")
                  ELSE [Answer(200, "") EXCEPT !.conversations = {conversation_id},
                                               !.messages = MessagesOf(conversation_id)]
             /\ UNCHANGED <<main_tables, signups, main_fixed>>

add_message(tbl, conversation_id, content, is_user) ==
    Append(tbl, [conversation_id |-> conversation_id, content |-> content,
                 is_user |-> is_user])

send_chat_message ==
    /\ deployed = "main"
    /\ \E token \in Tokens(users) :
          \/ jwt_required("send_chat_message", token)
          \/ \E text \in ChatTexts, conversation_id \in 0..MaxConversations,
                ai_response \in AiReplies :
             LET user_id == token.identity
                 message_content == Strip(text)
                 new_id == IF conversation_id = 0 THEN Len(conversations) + 1
                           ELSE conversation_id
             IN /\ JwtAccepts(token)
                /\ web_req' = [NoWebReq EXCEPT !.route = "send_chat_message",
                                              !.token = token, !.id = conversation_id,
                                              !.text = text]
                /\ IF message_content = <<>>
                   THEN /\ web_resp' = Answer(400, "Message cannot be empty")
                        /\ UNCHANGED <<conversations, messages>>
                   ELSE IF conversation_id # 0 /\
                           ~OwnsRow(conversations, conversation_id, user_id)
                   THEN /\ web_resp' = Answer(404, "Conversation not found")
                        /\ UNCHANGED <<conversations, messages>>
                   ELSE /\ conversation_id = 0 => Len(conversations) < MaxConversations
                        /\ Len(messages) + 2 <= MaxMessages
                        /\ conversations' =
                             IF conversation_id = 0
                             THEN create_conversation(user_id, Preview(message_content))
                             ELSE conversations
                        /\ messages' = add_message(
                               add_message(messages, new_id, message_content, TRUE),
                               new_id, ai_response, FALSE)
                        /\ web_resp' = [Answer(200, "") EXCEPT
                               !.conversations = {new_id},
                               !.messages = {Len(messages) + 1, Len(messages) + 2}]
                /\ UNCHANGED <<users, flashcards, signups, main_fixed>>

\* get_user_flashcards(user_id, topic)
get_user_flashcards(user_id, topic) ==
    {i \in OwnedBy(flashcards, user_id) : topic = <<>> \/ ilike(flashcards[i].topic, topic)}

get_flashcards ==
    /\ deployed = "main"
    /\ \E token \in Tokens(users) :
          \/ jwt_required("get_flashcards", token)
          \/ \E topic \in Topics :
             /\ JwtAccepts(token)
             /\ web_req' = [NoWebReq EXCEPT !.route = "get_flashcards", !.token = token,
                                           !.text = topic]
             /\ web_resp' = [Answer(200, "") EXCEPT
                    !.flashcards = get_user_flashcards(token.identity, topic)]
             /\ UNCHANGED <<main_tables, signups, main_fixed>>

\* save_flashcards: one row for each card the AI service returned
RECURSIVE save_flashcards(_, _, _)
save_flashcards(tbl, user_id, cards) ==
    IF cards = <<>> THEN tbl
    ELSE save_flashcards(
             Append(tbl, [user_id |-> user_id, question |-> Head(cards).question,
                          answer |-> Head(cards).answer, topic |-> Head(cards).topic,
                          times_reviewed |-> 0, times_correct |-> 0]),
             user_id, Tail(cards))

\* the lists handle_user_request("flashcards") can return for a topic
AiFlashcards(topic) ==
    {<<>>, <<[question |-> <<"h", "?">>, answer |-> <<"o", "k">>, topic |-> topic]>>}

\* the request names a topic and sends no content
generate_flashcards ==
    /\ deployed = "main"
    /\ \E token \in Tokens(users) :
          \/ jwt_required("generate_flashcards", token)
          \/ \E text \in Topics :
             LET user_id == token.identity
                 topic == Strip(text)
             IN /\ JwtAccepts(token)
                /\ web_req' = [NoWebReq EXCEPT !.route = "generate_flashcards",
                                              !.token = token, !.text = text]
                /\ IF topic = <<>>
                   THEN /\ web_resp' = Answer(400, "Topic or content required")
                        /\ UNCHANGED flashcards
                   ELSE \E ai_results \in AiFlashcards(topic) :
                        /\ Len(flashcards) + Len(ai_results) <= MaxFlashcards
                        /\ flashcards' = save_flashcards(flashcards, user_id, ai_results)
                        /\ web_resp' =
                             IF update_user_progress(UserProgressRows, user_id, topic) = "ok"
                             THEN [Answer(201, "") EXCEPT
                                      !.flashcards = DOMAIN flashcards' \ DOMAIN flashcards]
                             ELSE Answer(500, "TypeError")
                /\ UNCHANGED <<users, conversations, messages, signups, main_fixed>>

update_flashcard_performance(tbl, flashcard_id, correct) ==
    [tbl EXCEPT ![flashcard_id].times_reviewed = @ + 1,
                ![flashcard_id].times_correct = IF correct THEN @ + 1 ELSE @]

review_flashcard ==
    /\ deployed = "main"
    /\ \E token \in Tokens(users) :
          \/ jwt_required("review_flashcard", token)
          \/ \E flashcard_id \in 1..MaxFlashcards, correct \in BOOLEAN :
             LET user_id == token.identity
             IN /\ JwtAccepts(token)
                /\ web_req' = [NoWebReq EXCEPT !.route = "review_flashcard",
                                              !.token = token, !.id = flashcard_id,
                                              !.arg = IF correct THEN 1 ELSE 0]
                /\ IF ~OwnsRow(flashcards, flashcard_id, user_id)
                   THEN /\ web_resp' = Answer(404, "Flashcard not found")
                        /\ UNCHANGED flashcards
                   ELSE /\ flashcards[flashcard_id].times_reviewed < MaxReviews
                        /\ flashcards' =
                             update_flashcard_performance(flashcards, flashcard_id, correct)
                        /\ web_resp' =
                             IF update_user_progress(UserProgressRows, user_id,
                                                     flashcards[flashcard_id].topic) = "ok"
                             THEN [Answer(200, "") EXCEPT !.flashcards = {flashcard_id}]
                             ELSE Answer(500, "TypeError")
                /\ UNCHANGED <<users, conversations, messages, signups, main_fixed>>
get_dashboard_data ==
    /\ deployed = "main"
    /\ \E token \in Tokens(users) :
          \/ jwt_required("get_dashboard_data", token)
          \/ /\ JwtAccepts(token)
             /\ web_req' = [NoWebReq EXCEPT !.route = "get_dashboard_data", !.token = token]
             /\ web_resp' = [Answer(200, "") EXCEPT
                    !.flashcards = OwnedBy(flashcards, token.identity),
                    !.conversations = OwnedBy(conversations, token.identity)]
             /\ UNCHANGED <<main_tables, signups, main_fixed>>

SearchFlashcards(user_id, query) ==
    {i \in OwnedBy(flashcards, user_id) :
        \/ ilike(flashcards[i].question, query)
        \/ ilike(flashcards[i].answer, query)
        \/ ilike(flashcards[i].topic, query)}

\* query(Conversation).join(Message).filter(user_id == ...).filter(content.ilike(...))
SearchConversations(user_id, query) ==
    {c \in OwnedBy(conversations, user_id) :
        \E i \in MessagesOf(c) : ilike(messages[i].content, query)}

search_content ==
    /\ deployed = "main"
    /\ \E token \in Tokens(users) :
          \/ jwt_required("search_content", token)
          \/ \E q \in Queries, content_type \in {"all", "flashcards", "conversations"} :
             LET user_id == token.identity
                 query == Strip(q)
             IN /\ JwtAccepts(token)
                /\ web_req' = [NoWebReq EXCEPT !.route = "search_content", !.token = token,
                                              !.text = q, !.option = content_type]
                /\ web_resp' =
                     IF query = <<>>
                     THEN Answer(400, "Search query required")
                     ELSE [Answer(200, "") EXCEPT
                              !.flashcards =
                                  IF content_type \in {"all", "flashcards"}
                                  THEN SearchFlashcards(user_id, query) ELSE {},
                              !.conversations =
                                  IF content_type \in {"all", "conversations"}
                                  THEN SearchConversations(user_id, query) ELSE {}]
                /\ UNCHANGED <<main_tables, signups, main_fixed>>

\* int(request.args.get('days', 30)) of a one-character argument; every row
\* of the run was created within the last day
get_user_history ==
    /\ deployed = "main"
    /\ \E token \in Tokens(users) :
          \/ jwt_required("get_user_history", token)
          \/ \E days \in {"1", "x"} :
             /\ JwtAccepts(token)
             /\ web_req' = [NoWebReq EXCEPT !.route = "get_user_history", !.token = token,
                                           !.option = days]
             /\ web_resp' =
                  IF ~IsInt(days)
                  THEN Answer(500, "ValueError")
                  ELSE [Answer(200, "") EXCEPT
                           !.flashcards = OwnedBy(flashcards, token.identity),
                           !.conversations = OwnedBy(conversations, token.identity)]
             /\ UNCHANGED <<main_tables, signups, main_fixed>>
(***************************************************************************)
(* src/backend/app.py.  A users row is [name, email, password_hash, plan,   *)
(* referral_code, referred_by, is_active, daily_generations,               *)
(* last_generation_date]; the clock counts UTC days, NoDate is a NULL date. *)
(***************************************************************************)
MaxDay == 1              \* days the clock advances
MaxGenerations == 4      \* cap on the counter of a user whose plan has no limit
MaxMaterials == 1        \* rows of the backend's flashcards and questions tables together
DailyLimit == 3
MinNameLen == 2
MinPasswordLen == 8
MinNotesLen == 50

NameOk == <<"A", "l">>
NameShort == <<"x">>
NotesOk == [i \in 1..MinNotesLen |-> "n"]
NotesShort == <<" ">> \o [i \in 1..(MinNotesLen - 1) |-> "n"]

\* generate_referral_code(): a code no earlier user has
generate_referral_code(tbl) == <<"BRAINY-", Len(tbl) + 1>>

\* data.get('email', '').lower().strip()
NormalEmail(email) == Strip(LowerText(email))

\* what a request to src/backend/app.py leaves alone whatever it does
backend_fixed == <<deployed, main_tables, web_others>>

\* the bodies of POST /api/auth/signup: name, email, password, referralCode
SignupBodies ==
    {<<NameOk, EmailAMessy, Pw1, <<>>>>, <<NameOk, EmailA, Pw1, <<>>>>,
     <<NameOk, EmailB, Pw2, <<"BRAINY-", 1>>>>,
     <<NameShort, EmailA, Pw1, <<>>>>, <<NameOk, EmailNoAt, Pw1, <<>>>>,
     <<NameOk, EmailB, PwShort, <<>>>>}

backend_signup ==
    /\ deployed = "backend"
    /\ \/ /\ web_req' = [NoWebReq EXCEPT !.route = "signup", !.option = "no data"]
          /\ web_resp' = Answer(400, "No data provided")
          /\ UNCHANGED <<b_users, signups, gens_today>>
       \/ \E body \in SignupBodies, salt \in WebSalts :
          LET name == Strip(body[1])
              email == NormalEmail(body[2])
              password == body[3]
              referral_code == body[4]
              referred == referral_code # <<>> /\
                          \E i \in DOMAIN b_users : b_users[i].referral_code = referral_code
          IN /\ web_req' = [NoWebReq EXCEPT !.route = "signup", !.name = body[1],
                                           !.email = body[2], !.password = password,
                                           !.text = referral_code]
             /\ IF Len(name) < MinNameLen
                THEN /\ web_resp' = Answer(400, "Name too short")
                     /\ UNCHANGED <<b_users, signups, gens_today>>
                ELSE IF ~Contains(email, <<"@">>)
                THEN /\ web_resp' = Answer(400, "Invalid email")
                     /\ UNCHANGED <<b_users, signups, gens_today>>
                ELSE IF Len(password) < MinPasswordLen
                THEN /\ web_resp' = Answer(400, "Password too short")
                     /\ UNCHANGED <<b_users, signups, gens_today>>
                ELSE IF EmailTaken(b_users, email)
                THEN /\ web_resp' = Answer(400, "Email already exists")
                     /\ UNCHANGED <<b_users, signups, gens_today>>
                ELSE /\ Len(b_users) < MaxUsers
                     /\ b_users' = Append(b_users,
                            [name |-> name, email |-> email,
                             password_hash |-> generate_password_hash(password, salt),
                             plan |-> IF referred THEN "pro" ELSE "free",
                             referral_code |-> generate_referral_code(b_users),
                             referred_by |-> referral_code,
                             is_active |-> TRUE,
                             daily_generations |-> 0,
                             last_generation_date |-> NoDate])
                     /\ signups' = signups \cup {<<body[2], password>>}
                     /\ gens_today' = Append(gens_today, 0)
                     /\ web_resp' = [Answer(201, "Account created successfully!") EXCEPT
                                        !.token = Len(b_users) + 1,
                                        !.user = Len(b_users) + 1]
    /\ UNCHANGED <<now, b_flashcards, b_questions, backend_fixed>>

\* User.query.filter_by(email=email, is_active=True).first()
ActiveUserByEmail(tbl, email) ==
    IF \E i \in DOMAIN tbl : tbl[i].email = email /\ tbl[i].is_active
    THEN CHOOSE i \in DOMAIN tbl : tbl[i].email = email /\ tbl[i].is_active
    ELSE 0

\* the bodies of POST /api/auth/login: email, password
LoginBodies ==
    {<<email, password>> : email \in {EmailAMessy, EmailB}, password \in {Pw1, Pw2}}
    \cup {<<EmailB, <<>>>>, <<<<>>, Pw1>>}

backend_login ==
    /\ deployed = "backend"
    /\ \/ /\ web_req' = [NoWebReq EXCEPT !.route = "login", !.option = "no data"]
          /\ web_resp' = Answer(400, "No data provided")
       \/ \E body \in LoginBodies :
          LET raw == body[1]
              password == body[2]
              id == ActiveUserByEmail(b_users, NormalEmail(raw))
          IN /\ web_req' = [NoWebReq EXCEPT !.route = "login", !.email = raw,
                                           !.password = password]
             /\ web_resp' =
                  IF id = 0 \/ ~check_password_hash(b_users[id].password_hash, password)
                  THEN Answer(401, "Invalid credentials")
                  ELSE [Answer(200, "Login successful") EXCEPT !.token = id, !.user = id]
    /\ UNCHANGED <<now, backend_tables, signups, gens_today, backend_fixed>>
LimitReached_above(daily_generations) == daily_generations > DailyLimit
\* user.daily_generations >= 3
LimitReached(daily_generations) == daily_generations >= DailyLimit

\* check_user_limits(user): the users table after it (the reset of a new day
\* is committed at once) and whether the user may generate
check_user_limits(tbl, id, today) ==
    LET reset == IF tbl[id].plan = "free" /\ tbl[id].last_generation_date # today
                 THEN [tbl EXCEPT ![id].daily_generations = 0,
                                  ![id].last_generation_date = today]
                 ELSE tbl
    IN [tbl |-> reset,
        can_generate |-> tbl[id].plan # "free" \/ ~LimitReached(reset[id].daily_generations)]

\* the rows generate_materials adds to a table for the n items the AI service made
RECURSIVE SaveMaterials(_, _, _)
SaveMaterials(tbl, user_id, n) ==
    IF n = 0 THEN tbl ELSE SaveMaterials(Append(tbl, [user_id |-> user_id]), user_id, n - 1)

generate_materials ==
    /\ deployed = "backend"
    /\ \E token \in Tokens(b_users) :
          \/ jwt_required("generate_materials", token)
          \/ \E notes \in {<<>>, NotesShort, NotesOk}, n_flashcards \in 0..MaxMaterials,
                n_questions \in 0..MaxMaterials :
             LET user_id == token.identity
                 checked == check_user_limits(b_users, user_id, now)
             IN /\ JwtAccepts(token)
                /\ web_req' = [NoWebReq EXCEPT !.route = "generate_materials",
                                              !.token = token, !.text = notes]
                /\ IF user_id \notin DOMAIN b_users
                   THEN /\ web_resp' = Answer(404, "User not found")
                        /\ UNCHANGED <<backend_tables, gens_today>>
                   ELSE IF ~checked.can_generate
                   THEN /\ web_resp' = Answer(429, "Daily limit reached. Upgrade to Premium!")
                        /\ b_users' = checked.tbl
                        /\ UNCHANGED <<b_flashcards, b_questions, gens_today>>
                   ELSE IF notes = <<>>
                   THEN /\ web_resp' = Answer(400, "No data provided")
                        /\ b_users' = checked.tbl
                        /\ UNCHANGED <<b_flashcards, b_questions, gens_today>>
                   ELSE IF Len(Strip(notes)) < MinNotesLen
                   THEN /\ web_resp' = Answer(400, "Notes too short (minimum 50 characters)")
                        /\ b_users' = checked.tbl
                        /\ UNCHANGED <<b_flashcards, b_questions, gens_today>>
                   ELSE /\ Len(b_flashcards) + n_flashcards + Len(b_questions) + n_questions
                              <= MaxMaterials
                        /\ checked.tbl[user_id].daily_generations < MaxGenerations
                        /\ b_flashcards' = SaveMaterials(b_flashcards, user_id, n_flashcards)
                        /\ b_questions' = SaveMaterials(b_questions, user_id, n_questions)
                        /\ b_users' = [checked.tbl EXCEPT
                                          ![user_id].daily_generations = @ + 1,
                                          ![user_id].last_generation_date = now]
                        /\ gens_today' = [gens_today EXCEPT ![user_id] = @ + 1]
                        /\ web_resp' = [Answer(200, "Study materials generated successfully")
                                          EXCEPT
                               !.flashcards = DOMAIN b_flashcards' \ DOMAIN b_flashcards,
                               !.questions = DOMAIN b_questions' \ DOMAIN b_questions]
                /\ UNCHANGED <<now, signups, backend_fixed>>

get_user_materials ==
    /\ deployed = "backend"
    /\ \E token \in Tokens(b_users) :
          \/ jwt_required("get_user_materials", token)
          \/ /\ JwtAccepts(token)
             /\ web_req' = [NoWebReq EXCEPT !.route = "get_user_materials", !.token = token]
             /\ web_resp' = [Answer(200, "") EXCEPT
                    !.flashcards = OwnedBy(b_flashcards, token.identity),
                    !.questions = OwnedBy(b_questions, token.identity)]
             /\ UNCHANGED <<now, backend_tables, signups, gens_today, backend_fixed>>

get_profile ==
    /\ deployed = "backend"
    /\ \E token \in Tokens(b_users) :
          \/ jwt_required("get_profile", token)
          \/ /\ JwtAccepts(token)
             /\ web_req' = [NoWebReq EXCEPT !.route = "get_profile", !.token = token]
             /\ web_resp' = IF token.identity \notin DOMAIN b_users
                            THEN Answer(404, "User not found")
                            ELSE [Answer(200, "") EXCEPT !.user = token.identity]
             /\ UNCHANGED <<now, backend_tables, signups, gens_today, backend_fixed>>

\* midnight UTC passes
NextDay ==
    /\ deployed = "backend"
    /\ now < MaxDay
    /\ now' = now + 1
    /\ gens_today' = [i \in DOMAIN gens_today |-> 0]
    /\ UNCHANGED <<backend_tables, signups, web_req, web_resp, backend_fixed>>

InitWeb ==
    /\ NewInitVars
    /\ now = 0
    /\ RLInitVars
    /\ PayInitVars
    /\ DbInitVars
    /\ WebTables
    /\ deployed \in {"main", "backend"}

NextWeb ==
    \/ signup
    \/ login
    \/ get_conversations
    \/ get_conversation_detail
    \/ send_chat_message
    \/ get_flashcards
    \/ generate_flashcards
    \/ review_flashcard
    \/ get_dashboard_data
    \/ search_content
    \/ get_user_history
    \/ backend_signup
    \/ backend_login
    \/ generate_materials
    \/ get_user_materials
    \/ get_profile
    \/ NextDay

SpecWeb == InitWeb /\ [][NextWeb]_vars
(***************************************************************************)
(* Properties of the Flask apps.                                           *)
(***************************************************************************)
ProtectedRoutes ==
    {"get_conversations", "get_conversation_detail", "send_chat_message",
     "get_flashcards", "generate_flashcards", "review_flashcard",
     "get_dashboard_data", "search_content", "get_user_history",
     "generate_materials", "get_user_materials", "get_profile"}

\* the request went to a @jwt_required route without a token that verifies
Unauthenticated(req) == req.route \in ProtectedRoutes /\ req.token.kind # "valid"

ShowsNothing(resp) ==
    /\ resp.token = 0
    /\ resp.user = 0
    /\ resp.conversations = {} /\ resp.messages = {}
    /\ resp.flashcards = {} /\ resp.questions = {}

StoredUnchanged == UNCHANGED <<main_tables, backend_tables>>

\* C1 (as claimed): a request without a valid JWT to a @jwt_required
\* endpoint is answered 401, returns no stored record and changes none.
C1_NoJwtIs401 ==
    [][Unauthenticated(web_req') =>
          /\ web_resp'.status = 401
          /\ ShowsNothing(web_resp')
          /\ StoredUnchanged]_vars

\* C1 (amended): a request to a @jwt_required endpoint with no token or an
\* expired one is answered 401, one whose token does not decode is answered
\* 422; in every such case no stored record is returned or changed.
C1_NoJwtIsRefused ==
    [][Unauthenticated(web_req') =>
          /\ web_req'.token.kind \in {"none", "expired"} => web_resp'.status = 401
          /\ web_req'.token.kind = "malformed" => web_resp'.status = 422
          /\ ShowsNothing(web_resp')
          /\ StoredUnchanged]_vars

\* GET /api/flashcards without a token was answered 401 while flashcards
\* are stored
C1_Witness ==
    /\ web_req.route = "get_flashcards"
    /\ web_req.token.kind = "none"
    /\ web_resp.status = 401
    /\ flashcards # <<>>

\* the step handled a generate_materials request of an authenticated user
GenerateStep == web_req'.route = "generate_materials" /\ JwtAccepts(web_req'.token) /\ now' = now

C2_Step ==
    GenerateStep =>
        LET u == web_req'.token.identity
            free == b_users[u].plan = "free"
            same_day == b_users[u].last_generation_date = now
        IN /\ (free /\ same_day /\ b_users[u].daily_generations >= 3) =>
                 /\ web_resp'.status = 429
                 /\ web_resp'.message = "Daily limit reached. Upgrade to Premium!"
           /\ web_resp'.status = 429 =>
                 /\ free
                 /\ ShowsNothing(web_resp')
                 /\ UNCHANGED <<b_flashcards, b_questions>>
           /\ (free /\ ~same_day) =>
                 /\ web_resp'.status # 429
                 /\ b_users'[u].last_generation_date = now
                 /\ b_users'[u].daily_generations =
                        IF web_resp'.status = 200 THEN 1 ELSE 0
           /\ (free /\ same_day /\ web_resp'.status = 200) =>
                 b_users'[u].daily_generations = b_users[u].daily_generations + 1

\* C2: for a free-plan user generate_materials succeeds at most 3 times per
\* UTC day; once daily_generations is 3 every further request that day is
\* answered 429 and stores no flashcard or question; the first request on a
\* later day resets the count; no other plan is ever refused by the limit.
C2_DailyLimit ==
    /\ [](\A u \in DOMAIN b_users : b_users[u].plan = "free" => gens_today[u] <= 3)
    /\ [][C2_Step]_vars

\* a free user was refused 429 on a later day, after 3 generations that day
C2_Witness ==
    /\ web_req.route = "generate_materials"
    /\ web_resp.status = 429
    /\ now > 0
    /\ gens_today[web_req.token.identity] = 3
\* on whose behalf the step's request acted: the identity of its token, or
\* the user a signup created or a login named
Caller(req, resp) == IF JwtAccepts(req.token) THEN req.token.identity ELSE resp.user

\* the owner of the conversation a message belongs to
MessageOwner(msgs, convs, i) == convs[msgs[i].conversation_id].user_id

\* everything the response shows belongs to the caller
ShowsOnlyOwn ==
    deployed = "main" =>
        LET caller == Caller(web_req, web_resp)
        IN /\ \A c \in web_resp.conversations :
                 c \in DOMAIN conversations /\ conversations[c].user_id = caller
           /\ \A m \in web_resp.messages :
                 m \in DOMAIN messages /\ MessageOwner(messages, conversations, m) = caller
           /\ \A f \in web_resp.flashcards :
                 f \in DOMAIN flashcards /\ flashcards[f].user_id = caller

\* a step leaves every record of the other users as it was and adds records
\* only for the caller
ChangesOnlyOwn ==
    LET caller == Caller(web_req', web_resp')
    IN /\ \A c \in DOMAIN conversations' :
             IF c \in DOMAIN conversations
             THEN conversations[c].user_id # caller => conversations'[c] = conversations[c]
             ELSE conversations'[c].user_id = caller
       /\ \A m \in DOMAIN messages' :
             IF m \in DOMAIN messages
             THEN messages'[m] = messages[m]
             ELSE MessageOwner(messages', conversations', m) = caller
       /\ \A f \in DOMAIN flashcards' :
             IF f \in DOMAIN flashcards
             THEN flashcards[f].user_id # caller => flashcards'[f] = flashcards[f]
             ELSE flashcards'[f].user_id = caller

\* the request of an authenticated user names a row of tbl that another user owns
NamesForeignRow(req, tbl) ==
    /\ JwtAccepts(req.token)
    /\ req.id \in DOMAIN tbl
    /\ tbl[req.id].user_id # req.token.identity

\* a request for another user's conversation or flashcard is answered 404
\* (send_chat_message refuses a blank message with 400 before it looks the
\* conversation up) and nothing stored changes
ForeignIdIs404 ==
    /\ (web_req'.route = "get_conversation_detail" /\ NamesForeignRow(web_req', conversations))
          => web_resp'.status = 404 /\ ShowsNothing(web_resp') /\ StoredUnchanged
    /\ (web_req'.route = "send_chat_message" /\ NamesForeignRow(web_req', conversations))
          => /\ web_resp'.status = IF Strip(web_req'.text) = <<>> THEN 400 ELSE 404
             /\ ShowsNothing(web_resp')
             /\ StoredUnchanged
    /\ (web_req'.route = "review_flashcard" /\ NamesForeignRow(web_req', flashcards))
          => web_resp'.status = 404 /\ ShowsNothing(web_resp') /\ StoredUnchanged

UniqueEmails(tbl) == \A i, j \in DOMAIN tbl : tbl[i].email = tbl[j].email => i = j

\* the step handled a signup whose email, as the deployed app compares it,
\* is already registered
DuplicateSignup ==
    /\ web_req'.route = "signup"
    /\ now' = now
    /\ IF deployed = "main"
       THEN \E i \in DOMAIN users : users[i].email = web_req'.email
       ELSE \E i \in DOMAIN b_users : b_users[i].email = Strip(LowerText(web_req'.email))

\* the fields of the signup request pass the checks made before the lookup
SignupWellFormed(req) ==
    IF deployed = "main"
    THEN req.email # <<>> /\ req.password # <<>>
    ELSE Len(Strip(req.name)) >= 2 /\ Len(req.password) >= 8

C4_Step ==
    DuplicateSignup =>
        /\ web_resp'.status >= 400
        /\ web_resp'.token = 0
        /\ UNCHANGED <<users, b_users>>
        /\ SignupWellFormed(web_req') =>
              IF deployed = "main"
              THEN web_resp'.status = 409 /\ web_resp'.message = "User already exists"
              ELSE web_resp'.status = 400 /\ web_resp'.message = "Email already exists"

Compared(email) == IF deployed = "main" THEN email ELSE Strip(LowerText(email))

\* the step handled a login request that carried a body
LoginStep == web_req'.route = "login" /\ now' = now /\ web_req'.option # "no data"

\* the request repeats the email and password of a signup that succeeded
RepeatsSignup(req) ==
    \E pair \in signups : Compared(pair[1]) = Compared(req.email) /\ pair[2] = req.password

LoginSucceeds(req, resp, tbl) ==
    /\ resp.status = 200
    /\ resp.token \in DOMAIN tbl
    /\ tbl[resp.token].email = Compared(req.email)

LoginRefused401(resp) ==
    /\ resp.status = 401
    /\ resp.message = "Invalid credentials"
    /\ resp.token = 0

\* C5 (as claimed): after a signup with e and p succeeded, a login with e
\* and p succeeds and returns an access token; a login with e and any other
\* password, or with an email that was never registered, is answered 401
\* 'Invalid credentials' and issues no token.
C5_LoginAfterSignup ==
    [][(LoginStep /\ web_req'.email # <<>>) =>
          IF RepeatsSignup(web_req')
          THEN LoginSucceeds(web_req', web_resp', IF deployed = "main" THEN users ELSE b_users)
          ELSE LoginRefused401(web_resp')]_vars

\* C5 (amended): a login with e and p of a succeeded signup succeeds and
\* returns an access token; with e and another password, or an unregistered
\* email, it is answered 401 'Invalid credentials', except that src/app.py
\* answers 400 when the email or the password is empty; no login that fails
\* issues a token.
C5_LoginAfterSignupNonEmpty ==
    [][LoginStep =>
          IF RepeatsSignup(web_req')
          THEN LoginSucceeds(web_req', web_resp', IF deployed = "main" THEN users ELSE b_users)
          ELSE IF deployed = "main" /\ (web_req'.email = <<>> \/ web_req'.password = <<>>)
          THEN web_resp'.status = 400 /\ web_resp'.token = 0
          ELSE LoginRefused401(web_resp')]_vars

\* a login with a registered email and another user's password was answered 401
C5_Witness ==
    /\ web_req.route = "login"
    /\ web_resp.status = 401
    /\ web_req.password # <<>>
    /\ \E pair \in signups : Compared(pair[1]) = Compared(web_req.email)
    /\ \E pair \in signups : pair[2] = web_req.password

(***************************************************************************)
(* src/database.py: check_rate_limit and the rate_limits table.            *)
(* A row is [request_count, window_start, is_blocked], keyed by            *)
(* (ip_address, endpoint) through the unique key; the clock is in minutes. *)
(***************************************************************************)
MaxRateNow == 3        \* minute ticks stop here
MaxRateLimit == 2      \* limits 0..MaxRateLimit
MaxRateWindow == 2     \* windows 1..MaxRateWindow minutes
MaxRateCalls == 4      \* check_rate_limit calls kept in the history
RateIps == {1, 2}
RateEndpoints == {"/api/chat"}

\* INSERT ... ON DUPLICATE KEY UPDATE: a new row takes the column defaults,
\* an existing one restarts when its window_start is before now - window
UpsertRateLimit(tbl, key, window_minutes, t) ==
    IF key \in DOMAIN tbl
    THEN IF tbl[key].window_start < t - window_minutes
         THEN [tbl[key] EXCEPT !.request_count = 1, !.window_start = t]
         ELSE [tbl[key] EXCEPT !.request_count = @ + 1]
    ELSE [request_count |-> 1, window_start |-> t, is_blocked |-> FALSE]

check_rate_limit(ip_address, endpoint, limit, window_minutes) ==
    LET key == <<ip_address, endpoint>>
        row == UpsertRateLimit(rate_limits, key, window_minutes, now)
        count == row.request_count
        is_blocked == row.is_blocked \/ (count > limit /\ ~row.is_blocked)
        result == ~is_blocked /\ count <= limit
    IN /\ Len(rate_log) < MaxRateCalls
       /\ rate_limits' = [k \in DOMAIN rate_limits \cup {key} |->
                             IF k = key THEN [row EXCEPT !.is_blocked = is_blocked]
                             ELSE rate_limits[k]]
       /\ rate_log' = Append(rate_log, [key |-> key, at |-> now, result |-> result])
       /\ UNCHANGED <<now, rate_args, db_vars, rate_others>>

RateCheck ==
    \E ip_address \in RateIps, endpoint \in RateEndpoints :
        check_rate_limit(ip_address, endpoint, rate_args.limit, rate_args.window_minutes)

RateTick ==
    /\ now < MaxRateNow
    /\ now' = now + 1
    /\ UNCHANGED <<rate_vars, db_vars, rate_others>>

\* a day without a call goes by
RateDayPasses ==
    /\ now <= MaxRateNow
    /\ now' = now + RateLimitKeepMinutes + 1
    /\ UNCHANGED <<rate_vars, db_vars, rate_others>>

InitRate ==
    /\ now = 0
    /\ OldInitVars
    /\ CacheInitVars
    /\ AIInitVars
    /\ FileInitVars
    /\ StreakInitVars
    /\ LateInitVars
    /\ RateTables
    /\ rate_args \in [limit : 0..MaxRateLimit, window_minutes : 1..MaxRateWindow]

NextRate == RateCheck \/ cleanup_expired_sessions \/ RateTick \/ RateDayPasses

SpecRate == InitRate /\ [][NextRate]_vars

\* the step is a check_rate_limit call
RateStep == Len(rate_log') = Len(rate_log) + 1

LastRateCall(log) == log[Len(log)]

\* the calls for one key made since that key's window started
CallsInWindow(log, tbl, key) ==
    {i \in DOMAIN log : log[i].key = key /\ log[i].at >= tbl[key].window_start}

WindowPassed(tbl, key, t) ==
    key \in DOMAIN tbl /\ tbl[key].window_start < t - rate_args.window_minutes

\* C11 (as claimed): a check_rate_limit call returns True exactly when it is
\* among the first limit calls of its IP address and endpoint inside the
\* window, and a call made after window_minutes have passed since the window
\* started restarts the count at 1 and is allowed again.
C11_RateLimitWindow ==
    [][RateStep =>
          LET call == LastRateCall(rate_log')
              n == Cardinality(CallsInWindow(rate_log', rate_limits', call.key))
          IN /\ call.result = (n <= rate_args.limit)
             /\ WindowPassed(rate_limits, call.key, now) =>
                    /\ rate_limits'[call.key].request_count = 1
                    /\ rate_limits'[call.key].window_start = now
                    /\ (rate_args.limit >= 1 => call.result)]_vars

\* the same without the last conjunct holds: the count does restart
RateCountExact ==
    [][RateStep =>
          LET call == LastRateCall(rate_log')
              n == Cardinality(CallsInWindow(rate_log', rate_limits', call.key))
          IN /\ rate_limits'[call.key].request_count = n
             /\ call.result = (n <= rate_args.limit /\ ~rate_limits'[call.key].is_blocked)]_vars

(***************************************************************************)
(* src/utils.py: SimpleCache. The clock is in seconds; an entry is         *)
(* [value, expiry]; a ttl argument is <<n>>, or NoTtl when none is passed. *)
(***************************************************************************)
MaxCacheNow == 3       \* the clock stops advancing here
MaxTtl == 2            \* ttl and default_ttl values up to MaxTtl
CacheValues == {"v1", "v2"}
Ttls == {NoTtl} \cup {<<n>> : n \in 0..MaxTtl}

\* ttl or self.default_ttl: None and 0 are both false
TtlOrDefault(ttl, default) == IF ttl = NoTtl \/ ttl[1] = 0 THEN default ELSE ttl[1]

Without(tbl, key) == [k \in DOMAIN tbl \ {key} |-> tbl[k]]

cache_get(key) ==
    LET hit == key \in DOMAIN cache /\ now < cache[key].expiry
    IN /\ cache' = IF key \in DOMAIN cache /\ ~hit THEN Without(cache, key) ELSE cache
       /\ cache_ret' = [op |-> "get", key |-> key, at |-> now,
                        result |-> IF hit THEN cache[key].value ELSE None]
       /\ UNCHANGED <<now, default_ttl, cache_hist, cache_others>>

cache_set(key, value, ttl) ==
    LET expiry == now + TtlOrDefault(ttl, default_ttl)
    IN /\ cache' = [k \in DOMAIN cache \cup {key} |->
                       IF k = key THEN [value |-> value, expiry |-> expiry] ELSE cache[k]]
       /\ cache_ret' = [op |-> "set", key |-> key, at |-> now, result |-> None]
       /\ cache_hist' = [cache_hist EXCEPT ![key] =
                            [value |-> value, at |-> now, ttl |-> ttl, live |-> TRUE]]
       /\ UNCHANGED <<now, default_ttl, cache_others>>

cache_delete(key) ==
    /\ cache' = IF key \in DOMAIN cache THEN Without(cache, key) ELSE cache
    /\ cache_ret' = [op |-> "delete", key |-> key, at |-> now, result |-> None]
    /\ cache_hist' = [cache_hist EXCEPT ![key].live = FALSE]
    /\ UNCHANGED <<now, default_ttl, cache_others>>

cache_clear ==
    /\ cache' = <<>>
    /\ cache_ret' = [op |-> "clear", key |-> "", at |-> now, result |-> None]
    /\ cache_hist' = [k \in CacheKeys |-> [cache_hist[k] EXCEPT !.live = FALSE]]
    /\ UNCHANGED <<now, default_ttl, cache_others>>

CacheGet == \E key \in CacheKeys : cache_get(key)

CacheSet == \E key \in CacheKeys, value \in CacheValues, ttl \in Ttls : cache_set(key, value, ttl)

CacheDelete == \E key \in CacheKeys : cache_delete(key)

CacheTick ==
    /\ now < MaxCacheNow
    /\ now' = now + 1
    /\ UNCHANGED <<cache_vars, cache_others>>

InitCache ==
    /\ now = 0
    /\ OldInitVars
    /\ RateInitVars
    /\ AIInitVars
    /\ FileInitVars
    /\ StreakInitVars
    /\ LateInitVars
    /\ CacheTables
    /\ default_ttl \in 1..MaxTtl

NextCache == CacheGet \/ CacheSet \/ CacheDelete \/ cache_clear \/ CacheTick

SpecCache == InitCache /\ [][NextCache]_vars

\* the step is a SimpleCache call
CacheStep == now' = now /\ <<cache, cache_ret, cache_hist>>' # <<cache, cache_ret, cache_hist>>

\* what get(k) would return in a state
CacheLookup(tbl, k, t) == IF k \in DOMAIN tbl /\ t < tbl[k].expiry THEN tbl[k].value ELSE None

\* seconds an entry lives as claimed: the ttl that was passed, default_ttl when none was
ClaimedTtl(ttl) == IF ttl = NoTtl THEN default_ttl ELSE ttl[1]

\* seconds an entry lives in the code: a ttl of 0 counts as not passed
ActualTtl(ttl) == IF ttl = NoTtl \/ ttl[1] = 0 THEN default_ttl ELSE ttl[1]

GetAnswers(k, lives) ==
    LET h == cache_hist[k]
    IN IF h.live /\ now < h.at + lives
       THEN cache_ret'.result = h.value /\ k \in DOMAIN cache'
       ELSE cache_ret'.result = None /\ k \notin DOMAIN cache'

OtherKeysUntouched ==
    (CacheStep /\ cache_ret'.op \in {"get", "set", "delete"}) =>
        \A k \in CacheKeys \ {cache_ret'.key} :
            CacheLookup(cache', k, now) = CacheLookup(cache, k, now)

\* C12 (as claimed): get(k) returns the value of the most recent set(k, v, ttl)
\* before its expiry, ttl seconds after the set for every ttl passed and
\* default_ttl seconds when none was passed; at or after the expiry, or after
\* delete(k) or clear(), it returns None and the entry is gone; an operation
\* on one key leaves what get returns for the other keys unchanged.
C12_CacheGet ==
    [][/\ (CacheStep /\ cache_ret'.op = "get") =>
              GetAnswers(cache_ret'.key, ClaimedTtl(cache_hist[cache_ret'.key].ttl))
       /\ OtherKeysUntouched]_vars

\* what holds instead: the same with a passed ttl of 0 living default_ttl seconds
CacheGetActual ==
    [][/\ (CacheStep /\ cache_ret'.op = "get") =>
              GetAnswers(cache_ret'.key, ActualTtl(cache_hist[cache_ret'.key].ttl))
       /\ OtherKeysUntouched]_vars

(***************************************************************************)
(* src/backend/ai_service.py: AIService, the fallback generators.          *)
(* A content is a sequence of words; "." ends a sentence. A text the code  *)
(* builds with format() is the tuple of its parts. The module never        *)
(* defines HAS_NLTK or HAS_SPACY, so initialize_nlp_tools ends in its      *)
(* except branch (nlp None, stop_words empty) and extract_key_concepts     *)
(* always answers through extract_concepts_simple.                         *)
(***************************************************************************)
MaxContentLen == 4     \* words of a content
MaxCount == 3          \* count arguments 0..MaxCount
MaxConcepts == 15
TemplatesPerLevel == 5
MinLongWord == 6
MinConceptLen == 3
Words == {"Cats", "Dogs", "Ai", "learning", "is", "."}
Difficulties == {"beginner", "intermediate", "advanced"}
AiTopics == {"Cats", "Maths"}

\* \b[A-Z][a-z]+\b
IsCapitalized(w) == w \in {"Cats", "Dogs", "Ai"}

\* \b[a-z]{6,}\b finds the whole-word lower-case runs of 6 letters or more
IsLowerWord(w) == w \in {"learning", "is"}

WordLen(w) ==
    CASE w = "Cats" -> 4 [] w = "Dogs" -> 4 [] w = "Ai" -> 2
      [] w = "learning" -> 8 [] w = "is" -> 2 [] w = "." -> 1

RECURSIVE Contents(_)
Contents(n) ==
    IF n = 0 THEN {<<>>}
    ELSE LET shorter == Contents(n - 1)
         IN shorter \cup {Append(c, w) : c \in {d \in shorter : Len(d) = n - 1}, w \in Words}

Take(s, n) == SubSeq(s, 1, IF Len(s) < n THEN Len(s) ELSE n)

\* list(dict.fromkeys(xs)): first occurrences, order kept
RECURSIVE Unique(_)
Unique(xs) ==
    IF xs = <<>> THEN <<>>
    ELSE LET front == Unique(SubSeq(xs, 1, Len(xs) - 1))
             last == xs[Len(xs)]
         IN IF \E i \in DOMAIN front : front[i] = last THEN front ELSE Append(front, last)

extract_concepts_simple(content) ==
    LET Cap(w) == IsCapitalized(w)
        Long(w) == IsLowerWord(w) /\ WordLen(w) >= MinLongWord
        Kept(w) == WordLen(w) > MinConceptLen
        all_words == SelectSeq(content, Cap) \o SelectSeq(content, Long)
    IN Take(Unique(SelectSeq(all_words, Kept)), MaxConcepts)

extract_key_concepts(content) ==
    IF content = <<>> THEN <<>> ELSE extract_concepts_simple(content)

\* nltk's sent_tokenize: the sentences in order, each up to and with its "."
RECURSIVE sent_tokenize(_)
sent_tokenize(content) ==
    IF content = <<>> THEN <<>>
    ELSE LET ends == {i \in DOMAIN content : content[i] = "."}
             cut == IF ends = {} THEN Len(content)
                    ELSE CHOOSE i \in ends : \A j \in ends : i <= j
         IN <<SubSeq(content, 1, cut)>> \o sent_tokenize(SubSeq(content, cut + 1, Len(content)))

HasWord(sentence, w) == \E i \in DOMAIN sentence : sentence[i] = w

\* sorted by score, highest first, ties in their order; of the scores only
\* the topic's +3 tells the sentences of these contents apart
rank_sentences_by_importance(sentences, topic) ==
    LET OnTopic(sentence) == HasWord(sentence, topic)
        OffTopic(sentence) == ~HasWord(sentence, topic)
    IN SelectSeq(sentences, OnTopic) \o SelectSeq(sentences, OffTopic)

\* max(relevant_sentences, key=len): the first of the longest
Longest(sentences) ==
    sentences[CHOOSE i \in DOMAIN sentences :
                 /\ \A j \in DOMAIN sentences : Len(sentences[j]) <= Len(sentences[i])
                 /\ \A j \in 1..(i - 1) : Len(sentences[j]) < Len(sentences[i])]

generate_contextual_answer(concept, topic, content, difficulty) ==
    LET Relevant(sentence) == HasWord(sentence, concept)
        relevant_sentences == SelectSeq(sent_tokenize(content), Relevant)
    IN IF relevant_sentences # <<>>
       THEN <<concept, difficulty, topic, Longest(relevant_sentences)>>
       ELSE <<concept, " is a key concept in ", topic>>

\* templates[difficulty][i % len(templates[difficulty])].format(...)
FormatTemplate(difficulty, i, concept, topic) ==
    <<difficulty, i % TemplatesPerLevel, concept, topic>>

\* the first loop: one card per key concept not used before, up to count
RECURSIVE ConceptCards(_, _, _, _, _)
ConceptCards(n, key_concepts, content, topic, difficulty) ==
    IF n = 0 THEN <<>>
    ELSE LET before == ConceptCards(n - 1, key_concepts, content, topic, difficulty)
             concept == key_concepts[n]
         IN IF \E j \in 1..(n - 1) : key_concepts[j] = concept THEN before
            ELSE Append(before,
                        [question |-> FormatTemplate(difficulty, n - 1, concept, topic),
                         answer |-> generate_contextual_answer(concept, topic, content,
                                                               difficulty)])

Returned(op, result) == [op |-> op, raised |-> "", result |-> result]

Raised(op, error) == [op |-> op, raised |-> error, result |-> <<>>]

\* AIService has no method create_question_from_sentence: the first pass of
\* the second loop that finds a sentence to use raises AttributeError. The
\* key concepts are distinct, so the first loop skips none and the index
\* i - len(key_concepts) is never negative.
generate_flashcards_fallback(content, topic, difficulty, count) ==
    LET key_concepts == extract_key_concepts(content)
        n == IF count < Len(key_concepts) THEN count ELSE Len(key_concepts)
        cards == ConceptCards(n, key_concepts, content, topic, difficulty)
        important_sentences == rank_sentences_by_importance(sent_tokenize(content), topic)
    IN IF \E i \in Len(cards)..(count - 1) : i - Len(key_concepts) < Len(important_sentences)
       THEN Raised("generate_flashcards_fallback", "AttributeError")
       ELSE Returned("generate_flashcards_fallback", cards)

FlashcardsFallback ==
    /\ ai_out = NotCalled
    /\ ai_in.call = "generate_flashcards_fallback"
    /\ ai_out' = generate_flashcards_fallback(ai_in.content, ai_in.topic,
                                              ai_in.difficulty, ai_in.count)
    /\ UNCHANGED <<now, ai_in, ai_others>>

FlashcardInputs ==
    [call : {"generate_flashcards_fallback"}, content : Contents(MaxContentLen),
     topic : AiTopics, difficulty : Difficulties, count : 0..MaxCount,
     api_key : {FALSE}, hf : {NoHf}]

\* the content yields at least count key concepts, or enough sentences to
\* fill the slots the key concepts leave
YieldsEnough(content, count) ==
    \/ Len(extract_key_concepts(content)) >= count
    \/ Len(sent_tokenize(content)) >= count - Len(extract_key_concepts(content))

FullCards(result) ==
    \A i \in DOMAIN result : result[i].question # <<>> /\ result[i].answer # <<>>

\* C13 (as claimed): generate_flashcards_fallback returns exactly count
\* flashcards, each with a non-empty question and answer, whenever the content
\* yields at least count key concepts or enough sentences to fill the
\* remaining slots, and it never returns more than count flashcards.
C13_FallbackCount ==
    ai_out.op = "generate_flashcards_fallback" =>
        /\ YieldsEnough(ai_in.content, ai_in.count) =>
               /\ ai_out.raised = ""
               /\ Len(ai_out.result) = ai_in.count
               /\ FullCards(ai_out.result)
        /\ Len(ai_out.result) <= ai_in.count

\* what holds instead: exactly count full cards when the key concepts alone
\* reach count, an exception when a sentence would be used, never more than count
FallbackActual ==
    ai_out.op = "generate_flashcards_fallback" =>
        LET k == Len(extract_key_concepts(ai_in.content))
        IN /\ k >= ai_in.count =>
                  /\ ai_out.raised = ""
                  /\ Len(ai_out.result) = ai_in.count
                  /\ FullCards(ai_out.result)
           /\ (k < ai_in.count /\ ai_in.content # <<>>) => ai_out.raised = "AttributeError"
           /\ Len(ai_out.result) <= ai_in.count

(***************************************************************************)
(* src/backend/ai_service.py: generate_questions. The text the Hugging     *)
(* Face model returns is the sequence of its '---' blocks, a block the     *)
(* sequence of its non-empty stripped lines, a line [kind, text] with kind *)
(* "Q" for 'Q:...', "opt" for 'A)...' to 'D)...', "correct" for            *)
(* 'Correct:...' and "other"; text is what follows the prefix.             *)
(***************************************************************************)
MaxBlocks == 2         \* blocks of a response
MinBlockLines == 6
OptionCount == 4
MinQuestionLen == 10
MinOptionLen == 3
HttpOk == "200"
HttpError == "500"
QLong == <<"W", "h", "a", "t", " ", "i", "s", " ", "A", "I">>
QShort == <<"W", "h", "y", "?">>
OptOk == <<"y", "e", "s">>
OptShort == <<"n", "o">>
Letters == <<"A", "B", "C", "D", "E">>

Line(kind, text) == [kind |-> kind, text |-> text]

QuestionLines == {<<>>, <<Line("Q", QShort)>>, <<Line("Q", QLong)>>}

OptionLines ==
    {<<Line("opt", OptOk), Line("opt", OptOk), Line("opt", OptOk)>>,
     <<Line("opt", OptOk), Line("opt", OptOk), Line("opt", OptOk), Line("opt", OptOk)>>,
     <<Line("opt", OptOk), Line("opt", OptShort), Line("opt", OptOk), Line("opt", OptOk)>>}

CorrectLines ==
    {<<>>, <<Line("correct", <<"D">>)>>, <<Line("correct", <<"e">>)>>,
     <<Line("correct", <<"A", "B">>)>>}

OtherLines == {<<>>, <<Line("other", OptOk)>>}

\* a line that is none of the others stands in for a missing 'Correct:' line
Blocks ==
    {q \o o \o c : q \in QuestionLines, o \in OptionLines, c \in CorrectLines} \cup
    {q \o o \o x : q \in QuestionLines, o \in OptionLines, x \in OtherLines}

HfResponses ==
    {[status |-> HttpError, blocks |-> <<>>]} \cup
    {[status |-> HttpOk, blocks |-> b] :
        b \in UNION {[1..n -> Blocks] : n \in 0..MaxBlocks}}

\* str.upper() of one letter
Upper(ch) == IF ch = "e" THEN "E" ELSE ch

\* ord(correct_letter.upper()) - ord('A')
LetterIndex(letter) == (CHOOSE i \in DOMAIN Letters : Letters[i] = Upper(letter[1])) - 1

OfKind(lines, kind) ==
    LET Is(line) == line.kind = kind
    IN SelectSeq(lines, Is)

Texts(lines) == [i \in DOMAIN lines |-> lines[i].text]

\* ord() of a string that is not one character raises TypeError
BlockRaises(lines) ==
    /\ Len(lines) >= MinBlockLines
    /\ OfKind(lines, "Q") # <<>>
    /\ \E i \in DOMAIN lines : lines[i].kind = "correct" /\ Len(lines[i].text) # 1

\* the question one block gives, <<>> when the block is skipped
ParseBlock(lines) ==
    LET question_lines == OfKind(lines, "Q")
        question == Strip(question_lines[1].text)
        options == Texts(OfKind(lines, "opt"))
        corrects == OfKind(lines, "correct")
        correct_answer == IF corrects = <<>> THEN 0
                          ELSE LetterIndex(corrects[Len(corrects)].text)
    IN IF Len(lines) < MinBlockLines \/ question_lines = <<>> THEN <<>>
       ELSE IF /\ Len(options) = OptionCount
               /\ 0 <= correct_answer /\ correct_answer < OptionCount
               /\ question # <<>>
            THEN <<[question |-> question, options |-> options,
                    correct_answer |-> correct_answer]>>
            ELSE <<>>

RECURSIVE ParseBlocks(_)
ParseBlocks(blocks) ==
    IF blocks = <<>> THEN <<>> ELSE ParseBlock(Head(blocks)) \o ParseBlocks(Tail(blocks))

\* an exception in any block is caught and the answer is []
parse_questions_response(blocks) ==
    IF \E i \in DOMAIN blocks : BlockRaises(blocks[i]) THEN <<>> ELSE ParseBlocks(blocks)

EndsWithMark(text) == text # <<>> /\ text[Len(text)] = "?"

RECURSIVE validate_questions(_)
validate_questions(questions) ==
    IF questions = <<>> THEN <<>>
    ELSE LET question == Head(questions)
             question_text == Strip(question.question)
             options == [i \in DOMAIN question.options |-> Strip(question.options[i])]
             rest == validate_questions(Tail(questions))
         IN IF \/ Len(question.options) # OptionCount
               \/ ~(0 <= question.correct_answer /\ question.correct_answer < OptionCount)
               \/ Len(question_text) < MinQuestionLen
               \/ \E i \in DOMAIN options : Len(options[i]) < MinOptionLen
            THEN rest
            ELSE <<[question |-> IF EndsWithMark(question_text) THEN question_text
                                 ELSE Append(question_text, "?"),
                    options |-> options,
                    correct_answer |-> question.correct_answer]>> \o rest

\* the templates dict names self.create_identification_question and five
\* more methods AIService does not define: building it raises AttributeError
generate_questions_fallback(content, topic, difficulty, count) ==
    Raised("generate_questions_fallback", "AttributeError")

\* a 503 answer is retried after a pause; the call ends with the first other answer
generate_questions_huggingface(hf) ==
    IF hf.status = HttpOk
    THEN LET questions == parse_questions_response(hf.blocks)
         IN IF questions # <<>> THEN Returned("generate_questions_huggingface", questions)
            ELSE Raised("generate_questions_huggingface", "Exception")
    ELSE Raised("generate_questions_huggingface", "Exception")

Truncate_none(questions, count) == questions

\* questions[:count]
Truncate(questions, count) == SubSeq(questions, 1, IF Len(questions) < count
                                                   THEN Len(questions) ELSE count)

generate_questions(content, topic, difficulty, count, api_key, hf) ==
    LET questions == IF api_key THEN generate_questions_huggingface(hf)
                     ELSE generate_questions_fallback(content, topic, difficulty, count)
        except == generate_questions_fallback(content, topic, difficulty, count)
    IN IF questions.raised = ""
       THEN Returned("generate_questions",
                     Truncate(validate_questions(questions.result), count))
       ELSE [except EXCEPT !.op = "generate_questions"]

GenerateQuestions ==
    /\ ai_out = NotCalled
    /\ ai_in.call = "generate_questions"
    /\ ai_out' = generate_questions(ai_in.content, ai_in.topic, ai_in.difficulty,
                                    ai_in.count, ai_in.api_key, ai_in.hf)
    /\ UNCHANGED <<now, ai_in, ai_others>>

QuestionInputs ==
    [call : {"generate_questions"}, content : Contents(1), topic : {"Cats"},
     difficulty : Difficulties, count : 0..MaxCount, api_key : {FALSE}, hf : {NoHf}]
    \cup
    [call : {"generate_questions"}, content : {<<"Cats">>}, topic : {"Cats"},
     difficulty : {"intermediate"}, count : 0..MaxCount, api_key : {TRUE},
     hf : HfResponses]

InitAI ==
    /\ now = 0
    /\ OldInitVars
    /\ RateInitVars
    /\ CacheInitVars
    /\ FileInitVars
    /\ StreakInitVars
    /\ LateInitVars
    /\ ai_in \in FlashcardInputs \cup QuestionInputs
    /\ ai_out = NotCalled

NextAI == FlashcardsFallback \/ GenerateQuestions

SpecAI == InitAI /\ [][NextAI]_vars

WellFormed(question) ==
    /\ question.question # <<>>
    /\ Len(question.options) = 4
    /\ question.correct_answer \in 0..3

QuestionsFallbackRaises ==
    (ai_out.op = "generate_questions" /\ ~ai_in.api_key) => ai_out.raised = "AttributeError"

(***************************************************************************)
(* src/utils.py: allowed_file and get_file_type. A filename is the         *)
(* sequence of its characters.                                             *)
(***************************************************************************)
MaxNameLen == 4        \* filenames over NameChars up to this length
NameChars == {".", "m", "d", "M", "D", "x"}
Txt == <<"t", "x", "t">>
Pdf == <<"p", "d", "f">>
Doc == <<"d", "o", "c">>
Docx == <<"d", "o", "c", "x">>
Md == <<"m", "d">>
Rtf == <<"r", "t", "f">>
ALLOWED_EXTENSIONS == {Txt, Pdf, Doc, Docx, Md, Rtf}

TestNames ==
    {<<"t", "e", "s", "t", ".", "p", "d", "f">>,
     <<"t", "e", "s", "t", ".", "d", "o", "c", "x">>,
     <<"t", "e", "s", "t", ".", "t", "x", "t">>,
     <<"t", "e", "s", "t", ".", "e", "x", "e">>,
     <<"a", ".", "d", "o", "c">>,
     <<"a", ".", "r", "t", "f">>,
     <<"a", ".", "P", "D", "F">>,
     <<"a", ".", "p", "d", "f", ".", "e", "x", "e">>,
     <<"p", "d", "f">>}

Filenames == TestNames \cup UNION {[1..n -> NameChars] : n \in 0..MaxNameLen}

\* '.' in filename
HasDot(filename) == \E i \in DOMAIN filename : filename[i] = "."

\* filename.rsplit('.', 1) of a filename with a '.', read from the right
RECURSIVE RSplitDot(_)
RSplitDot(filename) ==
    LET front == SubSeq(filename, 1, Len(filename) - 1)
        last == filename[Len(filename)]
    IN IF last = "." THEN <<front, <<>>>>
       ELSE <<RSplitDot(front)[1], Append(RSplitDot(front)[2], last)>>

FileExtension_case(filename) == RSplitDot(filename)[2]

\* filename.rsplit('.', 1)[1].lower()
FileExtension(filename) == LowerText(RSplitDot(filename)[2])

allowed_file(filename) == HasDot(filename) /\ FileExtension(filename) \in ALLOWED_EXTENSIONS

\* file_types.get(extension, 'unknown')
FileTypeOf(extension) ==
    CASE extension = Pdf -> "pdf"
      [] extension = Doc -> "word"
      [] extension = Docx -> "word"
      [] extension = Txt -> "text"
      [] extension = Md -> "markdown"
      [] extension = Rtf -> "rtf"
      [] OTHER -> "unknown"

get_file_type(filename) ==
    IF filename = <<>> THEN "unknown"
    ELSE FileTypeOf(IF HasDot(filename) THEN FileExtension(filename) ELSE <<>>)

AllowedFile ==
    /\ ~file_out.allowed_called
    /\ file_out' = [file_out EXCEPT !.allowed_called = TRUE, !.allowed = allowed_file(file_in)]
    /\ UNCHANGED <<now, file_in, file_others>>

GetFileType ==
    /\ ~file_out.type_called
    /\ file_out' = [file_out EXCEPT !.type_called = TRUE, !.type = get_file_type(file_in)]
    /\ UNCHANGED <<now, file_in, file_others>>

InitFile ==
    /\ now = 0
    /\ OldInitVars
    /\ RateInitVars
    /\ CacheInitVars
    /\ AIInitVars
    /\ StreakInitVars
    /\ LateInitVars
    /\ file_in \in Filenames
    /\ file_out = NoFileCall

NextFile == AllowedFile \/ GetFileType

SpecFile == InitFile /\ [][NextFile]_vars

\* the text after the last '.' of a name that has one, lower-cased
AfterLastDot(name) ==
    LET last == CHOOSE i \in DOMAIN name :
                    name[i] = "." /\ \A j \in (i + 1)..Len(name) : name[j] # "."
    IN LowerText(SubSeq(name, last + 1, Len(name)))

ShouldBeAllowed(name) == HasDot(name) /\ AfterLastDot(name) \in ALLOWED_EXTENSIONS

KnownType(name) ==
    LET ext == AfterLastDot(name)
    IN /\ file_out.type # "unknown"
       /\ ext = Pdf => file_out.type = "pdf"
       /\ ext \in {Doc, Docx} => file_out.type = "word"
       /\ ext = Txt => file_out.type = "text"

\* C15: allowed_file(name) is true exactly when name has a '.' and the text
\* after its last '.', lower-cased, is an allowed extension, and for such a
\* name get_file_type gives the known type of the extension ('pdf' for pdf,
\* 'word' for doc and docx, 'text' for txt), never 'unknown'.
C15_AllowedFile ==
    /\ file_out.allowed_called => (file_out.allowed = ShouldBeAllowed(file_in))
    /\ (file_out.type_called /\ ShouldBeAllowed(file_in)) => KnownType(file_in)

\* an upper-case extension is accepted and typed
C15_Witness ==
    /\ file_in = <<"x", ".", "M", "D">>
    /\ file_out.allowed_called /\ file_out.allowed
    /\ file_out.type_called /\ file_out.type = "markdown"

(***************************************************************************)
(* src/backend/model.py: Progress.update_streak. The clock counts UTC      *)
(* days; the row is one that was committed, so its counters are numbers.   *)
(***************************************************************************)
MaxStreakDay == 5      \* the clock stops advancing here

IsYesterday_or_before(last_study_date, today) ==
    last_study_date # NoStudyDate /\ last_study_date[1] <= today - 1

\* self.last_study_date == today - timedelta(days=1)
IsYesterday(last_study_date, today) == last_study_date = <<today - 1>>

\* the row update_streak leaves and what it returns
update_streak(row, studied_today, today) ==
    IF ~studied_today \/ row.last_study_date = <<today>>
    THEN [row |-> row, result |-> FALSE]
    ELSE LET streak == IF IsYesterday(row.last_study_date, today)
                       THEN row.streak + 1 ELSE 1
         IN [row |-> [streak |-> streak,
                      longest_streak |-> IF streak > row.longest_streak THEN streak
                                         ELSE row.longest_streak,
                      last_study_date |-> <<today>>],
             result |-> TRUE]

UpdateStreak ==
    \E studied_today \in BOOLEAN :
        LET out == update_streak(progress, studied_today, now)
        IN /\ progress' = out.row
           /\ streak_ret' = [op |-> "update_streak", studied_today |-> studied_today,
                             at |-> now, result |-> out.result]
           /\ UNCHANGED <<now, streak_others>>

\* midnight UTC
StreakNextDay ==
    /\ now < MaxStreakDay
    /\ now' = now + 1
    /\ UNCHANGED <<streak_vars, streak_others>>

InitStreak ==
    /\ now = 0
    /\ OldInitVars
    /\ RateInitVars
    /\ CacheInitVars
    /\ AIInitVars
    /\ FileInitVars
    /\ StreakInitVars
    /\ LateInitVars

NextStreak == UpdateStreak \/ StreakNextDay

SpecStreak == InitStreak /\ [][NextStreak]_vars

\* the step is an update_streak(True) call
StreakStep == now' = now /\ streak_ret' # streak_ret /\ streak_ret'.studied_today

StudiedToday == progress.last_study_date = <<now>>

StudiedYesterday == progress.last_study_date = <<now - 1>>

\* C16: update_streak(True) leaves the record unchanged and returns False
\* when last_study_date is today, adds 1 to the streak when it is yesterday
\* and otherwise sets the streak to 1; in the last two cases it sets
\* last_study_date to today and returns True, and a second call on the same
\* day changes nothing more.
C16_UpdateStreak ==
    [][StreakStep =>
          /\ StudiedToday => (progress' = progress /\ ~streak_ret'.result)
          /\ (~StudiedToday /\ StudiedYesterday) => progress'.streak = progress.streak + 1
          /\ (~StudiedToday /\ ~StudiedYesterday) => progress'.streak = 1
          /\ ~StudiedToday => (progress'.last_study_date = <<now>> /\ streak_ret'.result)
          /\ update_streak(progress', TRUE, now).row = progress']_vars

\* a streak of two days was broken by a day off and restarted
C16_Witness ==
    /\ streak_ret.op = "update_streak" /\ streak_ret.result /\ streak_ret.at = now
    /\ progress.streak = 1
    /\ progress.longest_streak = 2
    /\ progress.last_study_date = <<now>>

(***************************************************************************)
(* C19: POST /api/upload of src/app.py                                     *)
(*                                                                         *)
(* The handler works in one SQLAlchemy session.  A session is modelled by  *)
(* the committed tables and the session's view of them; commit stores the  *)
(* view, and the teardown of a request that ended in an exception throws   *)
(* the view away.  Rows carry the id of the request that created them.     *)
(***************************************************************************)
MaxUploads == 1        \* upload requests handled
MaxGenerated == 1      \* items a generator returns, 0..MaxGenerated

UploadUsers == {1}

\* request.files['file']: absent, without a name, of a type allowed_file
\* refuses, allowed, or allowed with a name secure_filename leaves no dot in
FileParts == {"missing", "empty", "not_allowed", "allowed", "allowed_no_dot"}

GenerateTypes == {"all", "flashcards", "quiz", "summary", "other"}

\* what a generator returns: a list of n dicts, or the dict {"error": ...}
Absent == [kind |-> "absent", n |-> 0]

GeneratorOutcomes ==
    {[kind |-> "error", n |-> 0]} \cup {[kind |-> "list", n |-> k] : k \in 0..MaxGenerated}

\* the database or file-system call that raises while the request is handled
FaultPoints == {"none", "file.save", "flush", "save_flashcards.commit",
                "save_quiz.flush", "save_quiz.commit", "commit"}

Session(tables) == [stored |-> tables, view |-> tables]

Add(sess, table, rows) == [sess EXCEPT !.view[table] = @ \cup rows]

Commit(sess) == [sess EXCEPT !.stored = sess.view]

Ran(sess, raised) == [sess |-> sess, raised |-> raised]

process_uploaded_file(generate_type, fc, qz, summarizer_ok) ==
    IF generate_type \in {"all", "summary"} /\ ~summarizer_ok
    THEN [flashcards |-> Absent, quiz |-> Absent, summary |-> FALSE]
    ELSE [flashcards |-> IF generate_type \in {"all", "flashcards"} THEN fc ELSE Absent,
          quiz |-> IF generate_type \in {"all", "quiz"} THEN qz ELSE Absent,
          summary |-> generate_type \in {"all", "summary"}]

\* save_flashcards as it acts on the session; iterating the dict {"error": ...} yields its key, which is no dict: no row
session_save_flashcards(sess, id, user_id, cards, fault) ==
    LET rows == IF cards.kind = "list"
                THEN {[req |-> id, user_id |-> user_id, idx |-> k] : k \in 1..cards.n}
                ELSE {}
        added == Add(sess, "flashcards", rows)
    IN IF fault = "save_flashcards.commit" THEN Ran(added, TRUE)
       ELSE Ran(Commit(added), FALSE)

\* len(questions), also of the dict {"error": ...}
QuestionCount(questions) == IF questions.kind = "list" THEN questions.n ELSE 1

save_quiz(sess, id, user_id, questions, fault) ==
    LET quiz == [req |-> id, user_id |-> user_id, total_questions |-> QuestionCount(questions)]
        withQuiz == Add(sess, "quizzes", {quiz})
        rows == IF questions.kind = "list"
                THEN {[req |-> id, idx |-> k] : k \in 1..questions.n}
                ELSE {}
        added == Add(withQuiz, "quiz_questions", rows)
    IN IF fault = "save_quiz.flush" THEN Ran(withQuiz, TRUE)
       ELSE IF fault = "save_quiz.commit" THEN Ran(added, TRUE)
       ELSE Ran(Commit(added), FALSE)

\* an assignment to an attribute of the request's UploadedFile object
SetOnFile(sess, id, field, value) ==
    [sess EXCEPT !.view.uploaded_files =
        {IF r.req = id THEN [r EXCEPT ![field] = value] ELSE r : r \in @}]

Responded(tables, status) == [db |-> tables, status |-> status]

upload_file(tables, id, user_id, file, ai_results, fault) ==
    LET uploaded_file == [req |-> id, user_id |-> user_id, flashcards_generated |-> 0,
                          quiz_questions_generated |-> 0, content_summary |-> FALSE]
        s0 == Add(Session(tables), "uploaded_files", {uploaded_file})
        s1 == IF ai_results.flashcards.kind # "absent"
              THEN LET saved == session_save_flashcards(s0, id, user_id, ai_results.flashcards, fault)
                   IN IF saved.raised THEN saved
                      ELSE Ran(SetOnFile(saved.sess, id, "flashcards_generated",
                                         Cardinality({r \in saved.sess.view.flashcards :
                                                         r.req = id})), FALSE)
              ELSE Ran(s0, FALSE)
        s2 == IF s1.raised THEN s1
              ELSE IF ai_results.quiz.kind # "absent"
              THEN LET saved == save_quiz(s1.sess, id, user_id, ai_results.quiz, fault)
                   IN IF saved.raised THEN saved
                      ELSE Ran(SetOnFile(saved.sess, id, "quiz_questions_generated",
                                         QuestionCount(ai_results.quiz)), FALSE)
              ELSE s1
        s3 == IF s2.raised \/ ~ai_results.summary THEN s2
              ELSE Ran(SetOnFile(s2.sess, id, "content_summary", TRUE), FALSE)
    IN IF file \in {"missing", "empty", "not_allowed"} THEN Responded(tables, 400)
       ELSE IF fault \in {"file.save", "flush"} \/ file = "allowed_no_dot"
       THEN Responded(tables, 500)
       ELSE IF s3.raised \/ fault = "commit" THEN Responded(s3.sess.stored, 500)
       ELSE Responded(Commit(s3.sess).stored, 201)

UploadFile ==
    /\ upload_req.id < MaxUploads
    /\ \E user_id \in UploadUsers, file \in FileParts, generate_type \in GenerateTypes,
          fc \in GeneratorOutcomes, qz \in GeneratorOutcomes, summarizer_ok \in BOOLEAN,
          fault \in FaultPoints :
         LET id == upload_req.id + 1
             ai_results == process_uploaded_file(generate_type, fc, qz, summarizer_ok)
             answer == upload_file(upload_db, id, user_id, file, ai_results, fault)
         IN /\ upload_db' = answer.db
            /\ upload_req' = [id |-> id, user_id |-> user_id, file |-> file,
                              generate_type |-> generate_type, fault |-> fault]
            /\ upload_resp' = [status |-> answer.status]
    /\ UNCHANGED <<now, upload_others>>

InitUpload ==
    /\ now = 0 /\ OldInitVars /\ EarlyInitVars
    /\ UploadInitVars /\ PoolInitVars /\ GenInitVars /\ CrlInitVars

NextUpload == UploadFile

SpecUpload == InitUpload /\ [][NextUpload]_vars

\* the stored rows a request created
Trace(tables, id) ==
    [t \in DOMAIN tables |-> {r \in tables[t] : r.req = id}]

\* C19: an upload request answered with an error status leaves no row it
\* created in uploaded_files, flashcards, quizzes or quiz_questions.
C19_UploadErrorLeavesNoTrace ==
    upload_resp.status \in {400, 500} => Trace(upload_db, upload_req.id) = NoTables

\* what the handler does instead: a request answered 400 leaves nothing, and
\* one answered 500 leaves rows only when the exception came after the commit
\* inside save_flashcards or save_quiz, and then its UploadedFile row among them
UploadTraceAfterCommit ==
    /\ upload_resp.status = 400 => Trace(upload_db, upload_req.id) = NoTables
    /\ (upload_resp.status = 500 /\ Trace(upload_db, upload_req.id) # NoTables)
          => /\ \/ /\ upload_req.generate_type \in {"all", "flashcards"}
                   /\ upload_req.fault \in {"save_quiz.flush", "save_quiz.commit", "commit"}
                \/ /\ upload_req.generate_type \in {"all", "quiz"}
                   /\ upload_req.fault = "commit"
             /\ \E r \in upload_db.uploaded_files : r.req = upload_req.id
    /\ upload_resp.status = 201
          => \E r \in upload_db.uploaded_files : r.req = upload_req.id

(***************************************************************************)
(* C20: DatabaseManager.get_connection and the connection pool             *)
(*                                                                         *)
(* Threads run DatabaseManager operations.  An operation enters            *)
(* `with self.get_connection()`, runs its body and leaves the block by     *)
(* returning or raising; authenticate_user and create_user call            *)
(* log_audit_event, which enters a block of its own, inside theirs.  A     *)
(* held connection is TRUE while connection.is_connected() and FALSE once  *)
(* the link to the server is lost.                                         *)
(***************************************************************************)
MaxPoolSize == 2       \* config['pool_size'] in 1..MaxPoolSize

\* operations with one block, and those that log an audit event inside it
Operations == {"validate_session", "authenticate_user"}

CheckedOut == pool_size - pool_free

\* MySQLConnectionPool.get_connection: a queued connection, or PoolError
PoolExhausted == pool_free = 0

\* the finally clause of get_connection: close() puts the connection back
\* in the queue, and is called only while the connection is connected
Release(connected) == IF connected THEN 1 ELSE 0

Last(seq) == seq[Len(seq)]

Front(seq) == SubSeq(seq, 1, Len(seq) - 1)

\* an operation is called and enters its block
Enter(t) ==
    /\ pool_threads[t].pc = "idle"
    /\ \E op \in Operations :
          IF PoolExhausted
          THEN /\ pool_threads' = [pool_threads EXCEPT ![t] =
                                      [pc |-> "idle", held |-> <<>>, outcome |-> "PoolError"]]
               /\ UNCHANGED pool_free
          ELSE /\ pool_threads' = [pool_threads EXCEPT ![t] =
                                      [pc |-> op, held |-> <<TRUE>>, outcome |-> "none"]]
               /\ pool_free' = pool_free - 1
    /\ UNCHANGED <<now, pool_size, pool_kept, pool_others>>

\* the server or the network drops a connection a thread holds
ConnectionLost(t) ==
    /\ \E k \in DOMAIN pool_threads[t].held :
          /\ pool_threads[t].held[k]
          /\ pool_threads' = [pool_threads EXCEPT ![t].held[k] = FALSE]
    /\ UNCHANGED <<now, pool_size, pool_free, pool_kept, pool_others>>

\* authenticate_user calls log_audit_event after its commit; log_audit_event
\* catches the PoolError of an exhausted pool and returns
EnterAudit(t) ==
    /\ pool_threads[t].pc = "authenticate_user"
    /\ Last(pool_threads[t].held)
    /\ IF PoolExhausted
       THEN /\ pool_threads' = [pool_threads EXCEPT ![t].pc = "audited"]
            /\ UNCHANGED pool_free
       ELSE /\ pool_threads' = [pool_threads EXCEPT ![t].pc = "log_audit_event",
                                                    ![t].held = Append(@, TRUE)]
            /\ pool_free' = pool_free - 1
    /\ UNCHANGED <<now, pool_size, pool_kept, pool_others>>

\* a block is left, by return or by an exception: the except and finally
\* clauses of get_connection run
Leave(t) ==
    /\ pool_threads[t].pc # "idle"
    /\ \E raised \in BOOLEAN :
         LET mine == pool_threads[t]
             given == Release(Last(mine.held))
             nested == mine.pc = "log_audit_event"
         IN /\ pool_free' = pool_free + given
            /\ pool_kept' = pool_kept + (1 - given)
            /\ pool_threads' = [pool_threads EXCEPT ![t] =
                  [pc |-> IF nested THEN "audited" ELSE "idle",
                   held |-> Front(mine.held),
                   outcome |-> IF nested THEN mine.outcome
                               ELSE IF raised THEN "raised" ELSE "returned"]]
    /\ UNCHANGED <<now, pool_size, pool_others>>

InitPool ==
    /\ now = 0
    /\ OldInitVars
    /\ EarlyInitVars
    /\ UploadInitVars
    /\ pool_size \in 1..MaxPoolSize
    /\ pool_free = pool_size
    /\ pool_threads = [t \in PoolThreads |-> Idle]
    /\ pool_kept = 0
    /\ GenInitVars
    /\ CrlInitVars

NextPool ==
    \E t \in PoolThreads : Enter(t) \/ ConnectionLost(t) \/ EnterAudit(t) \/ Leave(t)

SpecPool == InitPool /\ [][NextPool]_vars

NoOperationInProgress == \A t \in PoolThreads : pool_threads[t].pc = "idle"

\* C20: every operation gives back each connection it took before it
\* returns, so the number of checked-out connections never exceeds the pool
\* size and is 0 whenever no operation is in progress.
C20_ConnectionsReturned ==
    /\ CheckedOut \in 0..pool_size
    /\ NoOperationInProgress => CheckedOut = 0

HeldBy(t) == Len(pool_threads[t].held)

\* what get_connection does instead: the pool never hands out more than
\* pool_size connections, and a connection is missing from it exactly while
\* an operation holds it or after it was lost while held
PoolAccounting ==
    /\ CheckedOut \in 0..pool_size
    /\ CheckedOut = HeldBy(1) + HeldBy(2) + pool_kept
    /\ \A t \in PoolThreads : pool_threads[t].pc = "idle" <=> HeldBy(t) = 0

(***************************************************************************)
(* C21: concurrent POST /api/study/generate of one free-plan user          *)
(*                                                                         *)
(* Each request runs in a thread with a database session of its own.  The  *)
(* session reads the users row once, works on its copy, and writes the     *)
(* attributes it changed when it commits; after a commit it reads the row  *)
(* again.  `now` counts UTC days.                                          *)
(***************************************************************************)
MaxGenDay == 1         \* days the clock advances
MaxGenRequests == 5    \* generate_materials requests begun

\* user = User.query.get(user_id)
GenLoad(t) ==
    /\ gen_threads[t].pc = "idle"
    /\ gen_started < MaxGenRequests
    /\ gen_started' = gen_started + 1
    /\ gen_threads' = [gen_threads EXCEPT ![t] = [pc |-> "loaded", user |-> gen_user, status |-> ""]]
    /\ UNCHANGED <<now, gen_user, gen_done, gen_others>>

\* what the commit of the new day's reset writes: the attributes whose value changed
ResetCommitted(stored, mine, today) ==
    [stored EXCEPT !.daily_generations = IF mine.daily_generations # 0 THEN 0 ELSE @,
                   !.last_generation_date = today]

\* can_generate, limit_message = check_user_limits(user), and the 429 answer
GenCheck(t) ==
    /\ gen_threads[t].pc = "loaded"
    /\ LET mine == gen_threads[t].user
           reset == mine.plan = "free" /\ mine.last_generation_date # now
           stored == IF reset THEN ResetCommitted(gen_user, mine, now) ELSE gen_user
           seen == IF reset THEN stored ELSE mine
           can_generate == mine.plan # "free" \/ ~LimitReached(seen.daily_generations)
       IN /\ gen_user' = stored
          /\ gen_threads' = [gen_threads EXCEPT ![t] =
                IF can_generate THEN [pc |-> "generating", user |-> seen, status |-> ""]
                ELSE [pc |-> "idle", user |-> seen, status |-> "429"]]
    /\ UNCHANGED <<now, gen_started, gen_done, gen_others>>

\* the rest of the handler: the notes are checked, the AI service is called,
\* the counter of the session's copy is raised by one and committed
GenFinish(t) ==
    /\ gen_threads[t].pc = "generating"
    /\ \E outcome \in {"200", "400", "500"} :
         LET mine == gen_threads[t].user
             updated == [mine EXCEPT !.daily_generations = @ + 1,
                                     !.last_generation_date = now]
         IN IF outcome = "200"
            THEN /\ gen_user' = [gen_user EXCEPT
                                    !.daily_generations = updated.daily_generations,
                                    !.last_generation_date = now]
                 /\ gen_threads' = [gen_threads EXCEPT ![t] =
                                       [pc |-> "idle", user |-> updated, status |-> "200"]]
                 /\ gen_done' = Append(gen_done, now)
            ELSE /\ gen_threads' = [gen_threads EXCEPT ![t] =
                                       [pc |-> "idle", user |-> mine, status |-> outcome]]
                 /\ UNCHANGED <<gen_user, gen_done>>
    /\ UNCHANGED <<now, gen_started, gen_others>>

\* midnight UTC passes
GenNextDay ==
    /\ now < MaxGenDay
    /\ now' = now + 1
    /\ UNCHANGED <<gen_vars, gen_others>>

InitGen ==
    /\ now = 0
    /\ OldInitVars
    /\ EarlyInitVars
    /\ UploadInitVars
    /\ PoolInitVars
    /\ GenInitVars
    /\ CrlInitVars

NextGen ==
    \/ \E t \in GenThreads : GenLoad(t) \/ GenCheck(t) \/ GenFinish(t)
    \/ GenNextDay

SpecGen == InitGen /\ [][NextGen]_vars

\* the requests that succeeded on a day
SucceededOn(day) == Cardinality({k \in DOMAIN gen_done : gen_done[k] = day})

\* C21: of the concurrent generate_materials requests of one free-plan
\* user at most 3 succeed on one UTC day, and the stored daily_generations
\* never exceeds 3.
C21_ConcurrentDailyLimit ==
    /\ \A day \in 0..MaxGenDay : SucceededOn(day) <= DailyLimit
    /\ gen_user.daily_generations <= DailyLimit

\* what the handler keeps: the stored counter never exceeds 3, and no
\* request succeeds whose own session saw the counter at 3
GenCounterBounded ==
    /\ gen_user.daily_generations \in 0..DailyLimit
    /\ \A t \in GenThreads :
          gen_threads[t].pc = "generating"
             => gen_threads[t].user.daily_generations < DailyLimit

(***************************************************************************)
(* C22: concurrent is_allowed calls on the shared rate_limiter             *)
(*                                                                         *)
(* Threads call rate_limiter.is_allowed with the limit and window of       *)
(* SpecRL.  A call reads the clock, builds the cleaned list, stores it in  *)
(* self.requests, compares the stored list's length with the limit and     *)
(* appends its time; another thread may run between any two of these.      *)
(***************************************************************************)
\* the user whose requests the threads make
CrlUsers == {1}

CrlInFlight(u) ==
    Cardinality({t \in CrlThreads : crl_threads[t].pc # "idle" /\ crl_threads[t].user = u})

\* now = datetime.utcnow()
CrlStart(t) ==
    /\ crl_threads[t].pc = "idle"
    /\ \E u \in CrlUsers :
          /\ Len(rl_log[u]) + CrlInFlight(u) < MaxCalls
          /\ crl_threads' = [crl_threads EXCEPT ![t] =
                [pc |-> "clean", user |-> u, at |-> now, cleaned |-> <<>>, result |-> "none"]]
    /\ UNCHANGED <<now, rl_vars, crl_others>>

\* the list comprehension over self.requests[user_id], or [] for a new user
CrlClean(t) ==
    /\ crl_threads[t].pc = "clean"
    /\ LET mine == crl_threads[t]
           cleaned == IF mine.user \in DOMAIN requests
                      THEN RecentRequests(requests[mine.user], mine.at, rl_window)
                      ELSE <<>>
       IN crl_threads' = [crl_threads EXCEPT ![t].pc = "store", ![t].cleaned = cleaned]
    /\ UNCHANGED <<now, rl_vars, crl_others>>

\* self.requests[user_id] = ...
CrlStore(t) ==
    /\ crl_threads[t].pc = "store"
    /\ LET mine == crl_threads[t]
       IN requests' = [u \in DOMAIN requests \cup {mine.user} |->
                          IF u = mine.user THEN mine.cleaned ELSE requests[u]]
    /\ crl_threads' = [crl_threads EXCEPT ![t].pc = "check"]
    /\ UNCHANGED <<now, rl_limit, rl_window, rl_ret, rl_log, crl_others>>

\* if len(self.requests[user_id]) < limit, else return False
CrlCheck(t) ==
    /\ crl_threads[t].pc = "check"
    /\ crl_threads' = [crl_threads EXCEPT ![t] =
          IF UnderLimit(requests[@.user], rl_limit)
          THEN [@ EXCEPT !.pc = "append"]
          ELSE [@ EXCEPT !.pc = "idle", !.result = "False"]]
    /\ UNCHANGED <<now, rl_vars, crl_others>>

\* self.requests[user_id].append(now); return True
CrlAppend(t) ==
    /\ crl_threads[t].pc = "append"
    /\ LET mine == crl_threads[t]
       IN /\ requests' = [requests EXCEPT ![mine.user] = Append(@, mine.at)]
          /\ rl_log' = [rl_log EXCEPT ![mine.user] = Append(@, mine.at)]
    /\ crl_threads' = [crl_threads EXCEPT ![t].pc = "idle", ![t].result = "True"]
    /\ UNCHANGED <<now, rl_limit, rl_window, rl_ret, crl_others>>

NextCrl ==
    \/ \E t \in CrlThreads :
          CrlStart(t) \/ CrlClean(t) \/ CrlStore(t) \/ CrlCheck(t) \/ CrlAppend(t)
    \/ RLTick

SpecCrl == InitRL /\ [][NextCrl]_vars

CountOf(seq, x) == Cardinality({k \in DOMAIN seq : seq[k] = x})

StoredTimes(u) == IF u \in DOMAIN requests THEN requests[u] ELSE <<>>

\* the time of every allowed call that is still inside the window is stored
NoTimeLost ==
    \A u \in RLUsers : \A x \in 0..MaxNow :
        x > now - rl_window => CountOf(StoredTimes(u), x) >= CountOf(rl_log[u], x)

\* C22: with concurrent is_allowed calls for one user the calls that
\* return True inside one window never exceed the limit, and no request time
\* an allowed call recorded is lost.
C22_ConcurrentIsAllowed ==
    /\ \A u \in RLUsers : \A t \in 0..MaxNow : Cardinality(AllowedIn(u, t)) <= rl_limit
    /\ NoTimeLost

\* what the calls keep: every stored time is the time of an allowed call
StoredTimesWereAllowed ==
    \A u \in RLUsers : \A x \in 0..MaxNow :
        CountOf(StoredTimes(u), x) <= CountOf(rl_log[u], x)

====
